---- MODULE Spec2Model ----
(***************************************************************************)
(* SMPT: SMT-based model checking of Petri nets.                           *)
(*                                                                         *)
(* The module models                                                       *)
(*   - the net data model, arc normalisation and the one-step encoding     *)
(*     (src/smpt/ptnet.py, src/pn.py),                                     *)
(*   - the solver context as a stack of assertion scopes and its           *)
(*     check-sat / get-model answers,                                      *)
(*   - the k-Induction, CP and Random-Walk workers of the portfolio        *)
(*     (src/smpt/kinduction.py, src/smpt/checkers/*.py),                   *)
(*   - the threaded BMC engine and the IC3/BMC Parallelizer                *)
(*     (src/bmc.py, src/parallelizer.py),                                  *)
(*   - the IC3 procedure (src/ic3.py).                                     *)
(***************************************************************************)
EXTENDS Integers, Sequences, FiniteSets, TLC

(***************************************************************************)
(* Bounds of the model.                                                    *)
(***************************************************************************)
\* Largest token count of a place in a marking of the model.
MaxTok == 4
\* Largest unrolling depth an engine reaches before the model stops it.
MaxK == 3
\* Largest threshold of a generated reachability formula.
MaxR == 3
\* Largest number of proof obligations IC3's push_generalization holds.
MaxStates == 3

\* The largest arc weight of a transition normalised on its own.
MaxWeight == 2

Places == {"p", "q"}

\* The markings of a net within the bound: one token count per place.
Markings(N) == [N.places -> 0..MaxTok]

\* A Python dict place -> weight is a function on the places it holds.
NoArcs == [pl \in {} |-> 0]

Arc(pl, w) == [x \in {pl} |-> w]

Arc2(pl1, w1, pl2, w2) == [x \in {pl1, pl2} |-> IF x = pl1 THEN w1 ELSE w2]

Mk(np, nq) == [pl \in Places |-> IF pl = "p" THEN np ELSE nq]

\* d.get(pl, 0)
Weight(d, pl) == IF pl \in DOMAIN d THEN d[pl] ELSE 0

\* The dicts over some of the places with weights in W.
Dicts(W) == UNION {[S -> W] : S \in SUBSET Places}

\* The pre and post dicts parse_arc can build: a weight p*w, or the negated
\* weight of an inhibitor arc p?-w.
PreDicts == Dicts(0 - MaxWeight .. MaxWeight)

PostDicts == Dicts(0 - MaxWeight .. MaxWeight)

\* PetriNet: the places are those of the initial marking.
PetriNet(m0, transitions) == [places |-> DOMAIN m0, m0 |-> m0, transitions |-> transitions]

(***************************************************************************)
(* Transition.normalize_flows: inputs, outputs, tests and delta from pre   *)
(* and post.  The branches test membership in the dicts, as the code does. *)
(***************************************************************************)
Both(t) == DOMAIN t.pre \cap DOMAIN t.post

normalize_inputs(t) ==
  [pl \in {x \in Both(t) : t.pre[x] > t.post[x]} \cup (DOMAIN t.pre \ DOMAIN t.post) |->
     IF pl \in DOMAIN t.post THEN t.pre[pl] - t.post[pl] ELSE t.pre[pl]]

normalize_outputs(t) ==
  [pl \in {x \in Both(t) : t.post[x] > t.pre[x]} \cup (DOMAIN t.post \ DOMAIN t.pre) |->
     IF pl \in DOMAIN t.pre THEN t.post[pl] - t.pre[pl] ELSE t.post[pl]]

normalize_tests_pre(t) ==
  [pl \in Both(t) |-> t.pre[pl]]

normalize_tests(t) ==
  [pl \in Both(t) |-> IF t.pre[pl] > t.post[pl] THEN t.post[pl] ELSE t.pre[pl]]

normalize_delta(t) ==
  [pl \in {x \in Both(t) : t.pre[x] # t.post[x]}
          \cup (DOMAIN t.pre \ DOMAIN t.post) \cup (DOMAIN t.post \ DOMAIN t.pre) |->
     IF pl \in Both(t) THEN t.post[pl] - t.pre[pl]
     ELSE IF pl \in DOMAIN t.pre THEN 0 - t.pre[pl] ELSE t.post[pl]]

normalize_flows(t) ==
  [pre |-> t.pre, post |-> t.post,
   inputs |-> normalize_inputs(t), outputs |-> normalize_outputs(t),
   tests |-> normalize_tests(t), delta |-> normalize_delta(t),
   connected_places |-> DOMAIN t.pre \cup DOMAIN t.post]

(***************************************************************************)
(* Nets, as left by PetriNet.parse_net: the initial marking and each       *)
(* transition's pre and post dicts (an inhibitor arc is a negative pre     *)
(* weight, a test arc p?w sets pre and post to w), normalised by           *)
(* parse_transition.                                                       *)
(***************************************************************************)
Tr(pre, post) == normalize_flows([pre |-> pre, post |-> post])

\* pl p (1) q (0); tr t p -> q
NetSeq == PetriNet(Mk(1, 0), << Tr(Arc("p", 1), Arc("q", 1)) >>)

\* pl p (0); tr t -> p
NetSource == PetriNet(Arc("p", 0), << Tr(NoArcs, Arc("p", 1)) >>)

\* pl p (1) q (0); tr t p?-1 -> q
NetInhibited == PetriNet(Mk(1, 0), << Tr(Arc("p", -1), Arc("q", 1)) >>)

\* pl p (0) q (0); tr t p?-1 -> q
NetInhibitor == PetriNet(Mk(0, 0), << Tr(Arc("p", -1), Arc("q", 1)) >>)

\* pl p (1) q (0); tr t1 p -> q; tr t2 q -> p
NetLoop == PetriNet(Mk(1, 0), << Tr(Arc("p", 1), Arc("q", 1)), Tr(Arc("q", 1), Arc("p", 1)) >>)

\* pl p (1) q (0); tr t p?1 -> q
NetTest == PetriNet(Mk(1, 0), << Tr(Arc("p", 1), Arc2("p", 1, "q", 1)) >>)

\* pl p (0); tr t p?-1 -> p
NetInhibitorPost == PetriNet(Arc("p", 0), << Tr(Arc("p", -1), Arc("p", 1)) >>)

\* pl p (0); tr t -> p*2
NetWeight == PetriNet(Arc("p", 0), << Tr(NoArcs, Arc("p", 2)) >>)

\* pl p (2) q (0); tr t p*2 -> p q
NetConsume == PetriNet(Mk(2, 0), << Tr(Arc("p", 2), Arc2("p", 1, "q", 1)) >>)

\* pl p (1) q (0) r (0); tr t p -> q r
NetFork ==
  PetriNet([pl \in {"p", "q", "r"} |-> IF pl = "p" THEN 1 ELSE 0],
           << Tr(Arc("p", 1), Arc2("q", 1, "r", 1)) >>)

Nets == {NetSeq, NetSource, NetInhibited, NetInhibitor, NetLoop, NetTest,
         NetInhibitorPost, NetWeight, NetConsume}

(***************************************************************************)
(* Transition.smtlib: the conjunction emitted for one transition, read as  *)
(* a relation between the marking at order k (m) and at order k+1 (m2).    *)
(***************************************************************************)
smtlib_guard(n, m) ==
  \A pl \in DOMAIN n.pre :
     IF n.pre[pl] > 0 THEN m[pl] >= n.pre[pl] ELSE m[pl] < 0 - n.pre[pl]

smtlib_update_inputs(n, m, m2) ==
  \A pl \in DOMAIN n.inputs :
     n.inputs[pl] > 0 =>
        IF pl \in DOMAIN n.outputs
        THEN m2[pl] = (m[pl] + n.outputs[pl]) - n.inputs[pl]
        ELSE m2[pl] = m[pl] - n.inputs[pl]

smtlib_update_outputs(n, m, m2) ==
  \A pl \in DOMAIN n.outputs :
     (pl \notin DOMAIN n.inputs \/ n.inputs[pl] < 0) => m2[pl] = m[pl] + n.outputs[pl]

smtlib_unconnected(n, m, m2) ==
  \A pl \in DOMAIN m :
     (pl \notin n.connected_places
        \/ (pl \in DOMAIN n.tests /\ pl \notin DOMAIN n.inputs /\ pl \notin DOMAIN n.outputs))
     => m2[pl] = m[pl]

\* The number of equalities on pl at order k+1 that Transition.smtlib
\* emits: one per loop of the method that writes an equality for pl.
smtlib_equalities(n, pl) ==
  (IF pl \in DOMAIN n.inputs /\ n.inputs[pl] > 0 THEN 1 ELSE 0)
  + (IF pl \in DOMAIN n.outputs /\ (pl \notin DOMAIN n.inputs \/ n.inputs[pl] < 0) THEN 1 ELSE 0)
  + (IF pl \notin n.connected_places
          \/ (pl \in DOMAIN n.tests /\ pl \notin DOMAIN n.inputs /\ pl \notin DOMAIN n.outputs)
     THEN 1 ELSE 0)

Transition_smtlib(t, m, m2) ==
  /\ smtlib_guard(t, m)
  /\ smtlib_update_inputs(t, m, m2)
  /\ smtlib_update_outputs(t, m, m2)
  /\ smtlib_unconnected(t, m, m2)

\* PetriNet.smtlib_transition_relation(k, eq): the disjunction over the
\* transitions, plus the stutter disjunct when eq holds.
smtlib_transition_relation(N, eq, m, m2) ==
  \/ \E i \in DOMAIN N.transitions : Transition_smtlib(N.transitions[i], m, m2)
  \/ (eq /\ m2 = m)

(***************************************************************************)
(* Concrete firing semantics (glossary): t is enabled at m iff every       *)
(* positive pre threshold is met and every inhibitor place is below its    *)
(* bound; firing removes the positive pre weights and adds the post        *)
(* weights.  Markings beyond MaxTok are outside the model.                 *)
(***************************************************************************)
Enabled(t, m) ==
  \A pl \in DOMAIN t.pre :
     IF t.pre[pl] > 0 THEN m[pl] >= t.pre[pl] ELSE m[pl] < 0 - t.pre[pl]

Fire(t, m) ==
  [pl \in DOMAIN m |->
     (m[pl] - (IF pl \in DOMAIN t.pre /\ t.pre[pl] > 0 THEN t.pre[pl] ELSE 0))
       + (IF pl \in DOMAIN t.post THEN t.post[pl] ELSE 0)]

Successors(N, m) ==
  {m2 \in Markings(N) : \E i \in DOMAIN N.transitions :
      Enabled(N.transitions[i], m) /\ m2 = Fire(N.transitions[i], m)}

RECURSIVE ReachWithin(_, _)
ReachWithin(N, k) ==
  IF k = 0 THEN {N.m0}
  ELSE UNION {{m} \cup Successors(N, m) : m \in ReachWithin(N, k - 1)}

RECURSIVE Closure(_, _)
Closure(N, S) ==
  LET S2 == S \cup UNION {Successors(N, m) : m \in S} IN
    IF S2 = S THEN S ELSE Closure(N, S2)

Reachable(N) == Closure(N, {N.m0})

(***************************************************************************)
(* Formulas (src/smpt/ptio/formula.py): atoms over one place's token       *)
(* count, boolean constants, and state formulas not/and/or.                *)
(***************************************************************************)
PlaceOrder == << "p", "q", "r" >>

Atom(pl, op, c) == [type |-> "atom", left |-> pl, operator |-> op, right |-> c]

BooleanConstant(b) == [type |-> "const", value |-> b]

StateFormula(operands, op) == [type |-> "sf", operands |-> operands, operator |-> op]

TRANSLATION_COMPARISON_OPERATORS(op, a, b) ==
  CASE op = "="  -> a = b
    [] op = "<=" -> a <= b
    [] op = ">=" -> a >= b
    [] op = "<"  -> a < b
    [] op = ">"  -> a > b
    [] op = "distinct" -> a # b

\* An atom whose left operand is an IntegerConstant and whose right operand
\* is a TokenCount.
AtomC(c, op, pl) == [type |-> "atomc", left |-> c, operator |-> op, right |-> pl]

RECURSIVE eval(_, _)
eval(f, m) ==
  CASE f.type = "atom" -> TRANSLATION_COMPARISON_OPERATORS(f.operator, m[f.left], f.right)
    [] f.type = "atomc" -> TRANSLATION_COMPARISON_OPERATORS(f.operator, f.left, m[f.right])
    [] f.type = "const" -> f.value
    [] f.type = "sf" ->
         IF f.operator = "not" THEN ~eval(f.operands[1], m)
         ELSE IF f.operator = "and" THEN \A i \in DOMAIN f.operands : eval(f.operands[i], m)
         ELSE IF f.operator = "or" THEN \E i \in DOMAIN f.operands : eval(f.operands[i], m)
         ELSE FALSE

NEGATION_COMPARISON_OPERATORS_lax(op) ==
  CASE op = "="  -> "distinct"
    [] op = "<=" -> ">="
    [] op = ">=" -> "<"
    [] op = "<"  -> ">="
    [] op = ">"  -> "<="
    [] op = "distinct" -> "="

NEGATION_COMPARISON_OPERATORS(op) ==
  CASE op = "="  -> "distinct"
    [] op = "<=" -> ">"
    [] op = ">=" -> "<"
    [] op = "<"  -> ">="
    [] op = ">"  -> "<="
    [] op = "distinct" -> "="

COMMUTATION_COMPARISON_OPERATORS(op) ==
  CASE op = "="  -> "="
    [] op = "<=" -> ">="
    [] op = ">=" -> "<="
    [] op = "<"  -> ">"
    [] op = ">"  -> "<"
    [] op = "distinct" -> "distinct"

\* NEGATION_BOOLEAN_OPERATORS has the keys 'and' and 'or' only.
NEGATION_BOOLEAN_OPERATORS(op) ==
  CASE op = "and" -> "or"
    [] op = "or" -> "and"
    [] OTHER -> "KeyError"

\* The concatenation of a sequence of sequences.
RECURSIVE Concat(_)
Concat(ss) == IF ss = << >> THEN << >> ELSE Head(ss) \o Concat(Tail(ss))

\* itertools.product(*lists): the leftmost list varies slowest.
RECURSIVE product(_)
product(lists) ==
  IF lists = << >> THEN << << >> >>
  ELSE LET rest == product(Tail(lists)) IN
         Concat([i \in DOMAIN Head(lists) |->
                   [j \in DOMAIN rest |-> << Head(lists)[i] >> \o rest[j]]])

\* Atom.dnf, BooleanConstant.dnf and StateFormula.dnf.
RECURSIVE dnf(_, _)
dnf(f, negation_propagation) ==
  CASE f.type \in {"atom", "atomc"} ->
         IF negation_propagation
         THEN dnf([f EXCEPT !.operator = NEGATION_COMPARISON_OPERATORS(f.operator)], FALSE)
         ELSE IF f.type = "atomc"
              THEN dnf(Atom(f.right, COMMUTATION_COMPARISON_OPERATORS(f.operator), f.left), FALSE)
              ELSE f
    [] f.type = "const" ->
         IF negation_propagation THEN BooleanConstant(~f.value) ELSE f
    [] f.type = "sf" ->
         IF f.operator = "not"
         THEN dnf(f.operands[1], ~negation_propagation)
         ELSE IF negation_propagation
         THEN dnf(StateFormula([i \in DOMAIN f.operands |-> dnf(f.operands[i], TRUE)],
                               NEGATION_BOOLEAN_OPERATORS(f.operator)), FALSE)
         ELSE LET operands_dnf == [i \in DOMAIN f.operands |-> dnf(f.operands[i], FALSE)]
                  disjuncts(d) == IF d.type = "sf" THEN d.operands ELSE << d >>
                  factors(cube) == IF cube.type = "sf" /\ cube.operator = "and"
                                   THEN cube.operands ELSE << cube >>
              IN IF f.operator = "and"
                 THEN LET combinations ==
                            product([i \in DOMAIN operands_dnf |-> disjuncts(operands_dnf[i])])
                      IN StateFormula(
                           [c \in DOMAIN combinations |->
                              StateFormula(Concat([i \in DOMAIN combinations[c] |->
                                                     factors(combinations[c][i])]), "and")],
                           "or")
                 ELSE StateFormula(Concat([i \in DOMAIN operands_dnf |->
                                             disjuncts(operands_dnf[i])]), "or")

\* Atom.negation, BooleanConstant.negation and StateFormula.negation (delta
\* and saturated_delta None); a KeyError raised below is raised by the caller.
KeyError == [type |-> "KeyError"]

RECURSIVE negation(_)
negation(f) ==
  CASE f.type \in {"atom", "atomc"} ->
         [f EXCEPT !.operator = NEGATION_COMPARISON_OPERATORS(f.operator)]
    [] f.type = "const" -> BooleanConstant(~f.value)
    [] f.type = "KeyError" -> f
    [] f.type = "sf" ->
         LET operands == [i \in DOMAIN f.operands |-> negation(f.operands[i])] IN
           IF \E i \in DOMAIN operands : operands[i] = KeyError
              \/ NEGATION_BOOLEAN_OPERATORS(f.operator) = "KeyError"
           THEN KeyError
           ELSE StateFormula(operands, NEGATION_BOOLEAN_OPERATORS(f.operator))

\* The values of property_def: set by the parsers to 'finally' or 'globally',
\* '' before.
PropertyDefs == {"finally", "globally", ""}

\* The verdicts handed to Formula.result: the members of Verdict, and the
\* booleans bmc.py and kinduction.py pass.
Verdicts == {"CEX", "INV", "UNKNOWN", "True", "False"}

Formula_result_same(property_def, verdict) ==
  IF property_def \in {"finally", "globally"} /\ verdict = "CEX" THEN "TRUE"
  ELSE IF property_def \in {"finally", "globally"} /\ verdict = "INV" THEN "FALSE"
  ELSE ""

\* Formula.result
Formula_result(property_def, verdict) ==
  IF property_def = "finally" /\ verdict = "CEX" THEN "TRUE"
  ELSE IF property_def = "finally" /\ verdict = "INV" THEN "FALSE"
  ELSE IF property_def = "globally" /\ verdict = "CEX" THEN "FALSE"
  ELSE IF property_def = "globally" /\ verdict = "INV" THEN "TRUE"
  ELSE ""

\* The comparison operators of formula.py.
ComparisonOperators == {"=", "<=", ">=", "<", ">", "distinct"}

\* not x, and the conjunctions and disjunctions of at most two operands of S.
Compose(S) ==
  {StateFormula(<< x >>, "not") : x \in S}
    \cup {StateFormula(ops, op) : ops \in {<< >>} \cup [1..1 -> S] \cup [1..2 -> S],
                                   op \in {"and", "or"}}

\* Every atom shape under one operator, and a few leaves under two.
Expressions ==
  LET leaves == {Atom("p", op, 1) : op \in ComparisonOperators}
                  \cup {AtomC(1, op, "p") : op \in ComparisonOperators}
                  \cup {Atom("q", ">=", 1), BooleanConstant(TRUE), BooleanConstant(FALSE)}
      few == {Atom("p", ">=", 1), Atom("q", "=", 0), AtomC(2, "<", "p"), BooleanConstant(TRUE)}
      few1 == few \cup Compose(few)
  IN leaves \cup Compose(leaves) \cup Compose(few1)

\* The places of a dict in the order of the net's places.
Keys(d) == SelectSeq(PlaceOrder, LAMBDA pl : pl \in DOMAIN d)

\* Formula.generate_reachability(marking): R is the conjunction of p >= m(p).
generate_reachability(marking) ==
  LET ks == Keys(marking)
      R == StateFormula([i \in DOMAIN ks |-> Atom(ks[i], ">=", marking[ks[i]])], "and")
  IN [R |-> R, P |-> StateFormula(<< R >>, "not"), property_def |-> "finally"]

generate_deadlock_enabled(N) ==
  LET clause(t) ==
        LET ks == Keys(t.pre)
            inequalities_R == [i \in DOMAIN ks |-> Atom(ks[i], ">=", t.pre[ks[i]])]
        IN IF inequalities_R = << >> THEN BooleanConstant(FALSE)
           ELSE IF Len(inequalities_R) = 1 THEN inequalities_R[1]
           ELSE StateFormula(inequalities_R, "or")
      R == StateFormula([i \in DOMAIN N.transitions |-> clause(N.transitions[i])], "and")
  IN [R |-> R, P |-> StateFormula(<< R >>, "not"), property_def |-> "finally"]

\* Formula.generate_deadlock: R says of every transition that one of its pre
\* conditions fails.
generate_deadlock(N) ==
  LET clause(t) ==
        LET ks == Keys(t.pre)
            inequalities_R == [i \in DOMAIN ks |->
                                 IF t.pre[ks[i]] > 0
                                 THEN Atom(ks[i], "<", t.pre[ks[i]])
                                 ELSE Atom(ks[i], ">=", 0 - t.pre[ks[i]])]
        IN IF inequalities_R = << >> THEN BooleanConstant(FALSE)
           ELSE IF Len(inequalities_R) = 1 THEN inequalities_R[1]
           ELSE StateFormula(inequalities_R, "or")
      R == StateFormula([i \in DOMAIN N.transitions |-> clause(N.transitions[i])], "and")
  IN [R |-> R, P |-> StateFormula(<< R >>, "not"), property_def |-> "finally"]

ReachabilityMarkings(N) == UNION {[S -> 1..MaxR] : S \in (SUBSET N.places) \ {{}}}

\* The reachability formulas of a net within the bound.
Formulas(N) == {generate_reachability(d) : d \in ReachabilityMarkings(N)}

(***************************************************************************)
(* Solver context: the stack of assertion scopes of the SMT child.  An     *)
(* item is what one write of an engine asserts:                            *)
(*   decl k   declarations p@k with p@k >= 0                               *)
(*   init k   the initial marking at order k                               *)
(*   trans k  the transition relation k -> k+1 without the stutter         *)
(*   transeq k  the transition relation k -> k+1 with the stutter          *)
(*   P k, R k   the formula's P, R at order k                              *)
(***************************************************************************)
Item(kind, k) == [kind |-> kind, ord |-> k]

EmptyContext == << {} >>

write(ctx, items) == [ctx EXCEPT ![Len(ctx)] = @ \cup items]

push(ctx) == Append(ctx, {})

\* (pop) with no pushed scope is an error of the solver: the context is kept.
pop(ctx) == IF Len(ctx) > 1 THEN SubSeq(ctx, 1, Len(ctx) - 1) ELSE ctx

Asserted(ctx) == UNION {ctx[i] : i \in DOMAIN ctx}

MaxOrder(items) ==
  LET ords == {it.ord : it \in {x \in items : x.kind = "decl"}} IN
    IF ords = {} THEN 0 ELSE CHOOSE k \in ords : \A j \in ords : j <= k

\* The constraints on the marking at order k alone.
HoldsAt(N, F, items, k, m) ==
  /\ Item("init", k) \in items => m = N.m0
  /\ Item("P", k) \in items => eval(F.P, m)
  /\ Item("R", k) \in items => eval(F.R, m)

\* The constraints linking order k to order k+1.
Linked(N, items, k, m, m2) ==
  /\ Item("trans", k) \in items => smtlib_transition_relation(N, FALSE, m, m2)
  /\ Item("transeq", k) \in items => smtlib_transition_relation(N, TRUE, m, m2)

\* The markings at order k of the assignments that satisfy every assertion
\* on the orders 0..k.
RECURSIVE ModelsAt(_, _, _, _)
ModelsAt(N, F, items, k) ==
  IF k = 0 THEN {m \in Markings(N) : HoldsAt(N, F, items, 0, m)}
  ELSE UNION {{m2 \in Markings(N) : /\ HoldsAt(N, F, items, k, m2)
                                 /\ Linked(N, items, k - 1, m, m2)} :
              m \in ModelsAt(N, F, items, k - 1)}

\* The answer of (check-sat) on a live solver.
Satisfiable(N, F, ctx) == ModelsAt(N, F, Asserted(ctx), MaxOrder(Asserted(ctx))) # {}

(***************************************************************************)
(* State.                                                                  *)
(***************************************************************************)
VARIABLES
  net,              \* the Petri net under analysis
  formula,          \* the formula (R, P, property_def) under analysis
  ki,               \* the k-Induction worker
  cp,               \* the CP worker
  rw,               \* the Random-Walk worker
  results,          \* the results queue of the portfolio
  induction_queue,  \* the queue k-Induction shares with BMC
  concurrent_pids,  \* the queue holding the pids of the concurrent methods
  signals,          \* the workers that have sent STOP
  timed_out,        \* the scheduler's timeout has expired
  bmc,              \* the BMC thread (src/bmc.py)
  ic3,              \* the IC3 thread (src/ic3.py)
  stop_bmc,         \* the Event stop_bmc
  stop_ic3,         \* the Event stop_ic3
  result_bmc,       \* the list result_bmc of Parallelizer.run
  result_ic3,       \* the list result_ic3 of Parallelizer.run
  par,              \* Parallelizer.run: its position and the value it returns
  run,              \* a firing sequence of the net: the markings it visits
  assignment,       \* an assignment of the unrolled encoding: the marking at each order
  arg,              \* the argument a function of the program is called with
  out,              \* what the call returned (None before the call)
  analyzer,         \* the ConcurrentPlaces analyzer (src/concurrent_places.py)
  xml,              \* main of src/smpt.py on a file of properties, and its k-Induction thread
  smpn              \* k_induction of src/smpn.py and the thread running KInduction.solve

commonVars == << net, formula >>

encVars == << run, assignment >>

callerVars == << xml, smpn >>

fnVars == << arg, out, analyzer, callerVars >>

threadVars == << bmc, ic3, stop_bmc, stop_ic3, result_bmc, result_ic3, par >>

portfolioVars == << ki, cp, rw, results, induction_queue, concurrent_pids, signals, timed_out >>

vars == << commonVars, portfolioVars, threadVars, encVars, fnVars >>

Workers == {"KI", "CP", "RW"}

(***************************************************************************)
(* The solver driver of the portfolio workers (kill, aborted).  A solver   *)
(* call on a killed child sets aborted and returns no answer.              *)
(***************************************************************************)
\* The value check_sat hands back on an aborted solver: not 'sat'.
check_sat_aborted == FALSE

\* Solver.kill(): terminates the child; idempotent.  A STOP signal or the
\* timeout terminates every solver child of the worker it reaches.
kill(w) == [w EXCEPT !.alive = FALSE]

\* send_signal_pids(pids, STOP): every solver child of the other workers is killed.
send_signal_pids(sender) ==
  /\ ki' = IF sender = "KI" THEN [ki EXCEPT !.pc = "done"]
           ELSE [kill(ki) EXCEPT !.bmc_alive = FALSE]
  /\ cp' = IF sender = "CP" THEN [cp EXCEPT !.pc = "done"] ELSE kill(cp)
  /\ rw' = IF sender = "RW" THEN [rw EXCEPT !.pc = "done"]
           ELSE [rw EXCEPT !.alive = FALSE, !.parikh_alive = FALSE]
  /\ signals' = signals \cup {sender}

(***************************************************************************)
(* KInduction (src/smpt/kinduction.py).                                    *)
(***************************************************************************)
\* prove: `if self.ptnet_reduced is None: ... else: iteration =
\* self.prove_with_reduction()`, whose body is `return None`.
KI_prove_with_reduction ==
  /\ ki.pc = "start"
  /\ ki.reduced
  /\ ki' = [ki EXCEPT !.k = << >>, !.pc = "publish"]
  /\ UNCHANGED << commonVars, encVars, fnVars, threadVars, cp, rw, results, induction_queue, concurrent_pids, signals, timed_out >>

\* prove_without_reduction, up to the first check-sat.
KI_prove_without_reduction ==
  /\ ki.pc = "start"
  /\ ~ki.reduced
  /\ ki' = [ki EXCEPT
       !.ctx = write(push(write(EmptyContext,
                 {Item("decl", 0), Item("P", 0), Item("decl", 1), Item("trans", 0)})),
                 {Item("R", 1)}),
       !.k = 1,
       !.pc = "check"]
  /\ UNCHANGED << commonVars, encVars, fnVars, threadVars, cp, rw, results, induction_queue, concurrent_pids, signals, timed_out >>

\* The loop test `while self.solver.check_sat()`.
KI_check_sat ==
  /\ ki.pc = "check"
  /\ IF ki.alive
     THEN LET s == Satisfiable(net, formula, ki.ctx) IN
            ki' = [ki EXCEPT !.sat = IF s THEN "sat" ELSE "unsat",
                             !.pc = IF s THEN "loop" ELSE "publish"]
     ELSE ki' = [ki EXCEPT !.aborted = TRUE,
                           !.sat = "aborted",
                           !.pc = IF check_sat_aborted THEN "loop" ELSE "publish"]
  /\ UNCHANGED << commonVars, encVars, fnVars, threadVars, cp, rw, results, induction_queue, concurrent_pids, signals, timed_out >>

KI_loop_no_pop ==
  /\ ki.pc = "loop"
  /\ ki.k < MaxK
  /\ ki' = [ki EXCEPT
       !.ctx = write(push(write(ki.ctx,
                 {Item("decl", ki.k + 1), Item("P", ki.k), Item("trans", ki.k)})),
                 {Item("R", ki.k + 1)}),
       !.k = ki.k + 1,
       !.pc = "check"]
  /\ UNCHANGED << commonVars, encVars, fnVars, threadVars, cp, rw, results, induction_queue, concurrent_pids, signals, timed_out >>

\* The loop body: pop, declare k+1, assert P at k, transition k -> k+1, push, R at k+1.
KI_loop ==
  /\ ki.pc = "loop"
  /\ ki.k < MaxK
  /\ ki' = [ki EXCEPT
       !.ctx = write(push(write(pop(ki.ctx),
                 {Item("decl", ki.k + 1), Item("P", ki.k), Item("trans", ki.k)})),
                 {Item("R", ki.k + 1)}),
       !.k = ki.k + 1,
       !.pc = "check"]
  /\ UNCHANGED << commonVars, encVars, fnVars, threadVars, cp, rw, results, induction_queue, concurrent_pids, signals, timed_out >>

\* prove: `if self.induction_queue is not None: self.induction_queue.put(iteration)`.
KI_publish ==
  /\ ki.pc = "publish"
  /\ induction_queue' = IF ki.has_queue THEN Append(induction_queue, ki.k) ELSE induction_queue
  /\ ki' = [ki EXCEPT !.pc = "kill"]
  /\ UNCHANGED << commonVars, encVars, fnVars, threadVars, cp, rw, results, concurrent_pids, signals, timed_out >>

\* prove: `self.solver.kill()`.
KI_kill ==
  /\ ki.pc = "kill"
  /\ ki' = [kill(ki) EXCEPT !.pc = "quit"]
  /\ UNCHANGED << commonVars, encVars, fnVars, threadVars, cp, rw, results, induction_queue, concurrent_pids, signals, timed_out >>

\* prove without its test of self.solver.aborted: the result is always put.
KI_quit_unchecked ==
  /\ ki.pc = "quit"
  /\ ki' = [ki EXCEPT !.pc = "put"]
  /\ UNCHANGED << commonVars, encVars, fnVars, threadVars, cp, rw, results, induction_queue, concurrent_pids, signals, timed_out >>

\* prove: `if self.solver.aborted: return`.
KI_quit ==
  /\ ki.pc = "quit"
  /\ ki' = [ki EXCEPT !.pc = IF ki.aborted THEN "done" ELSE "put"]
  /\ UNCHANGED << commonVars, encVars, fnVars, threadVars, cp, rw, results, induction_queue, concurrent_pids, signals, timed_out >>

\* prove: `result.put([False, None])`: R is not reachable (verdict INV).
KI_put ==
  /\ ki.pc = "put"
  /\ results' = Append(results, [worker |-> "KI", verdict |-> "INV"])
  /\ ki' = [ki EXCEPT !.pc = "empty"]
  /\ UNCHANGED << commonVars, encVars, fnVars, threadVars, cp, rw, induction_queue, concurrent_pids, signals, timed_out >>

\* prove: `if not concurrent_pids.empty():`.
KI_empty ==
  /\ ki.pc = "empty"
  /\ ki' = [ki EXCEPT !.pc = IF concurrent_pids # << >> THEN "get" ELSE "done"]
  /\ UNCHANGED << commonVars, encVars, fnVars, threadVars, cp, rw, results, induction_queue, concurrent_pids, signals, timed_out >>

\* prove: `send_signal(concurrent_pids.get(), STOP)`; get() blocks on an empty queue.
KI_get ==
  /\ ki.pc = "get"
  /\ concurrent_pids # << >>
  /\ concurrent_pids' = Tail(concurrent_pids)
  /\ send_signal_pids("KI")
  /\ UNCHANGED << commonVars, encVars, fnVars, threadVars, results, induction_queue, timed_out >>

\* The context of prove_without_reduction at its k-th check-sat.
RECURSIVE KI_context(_)
KI_context(k) ==
  IF k = 1
  THEN write(push(write(EmptyContext,
               {Item("decl", 0), Item("P", 0), Item("decl", 1), Item("trans", 0)})),
             {Item("R", 1)})
  ELSE write(push(write(pop(KI_context(k - 1)),
               {Item("decl", k), Item("P", k - 1), Item("trans", k - 1)})),
             {Item("R", k)})

\* C23: at every check-sat of k-Induction (non-reduced) with R at order n,
\* the base level asserts P at the orders 0..n-1 and the transition
\* relations i -> i+1 for i < n over the declared orders 0..n, and R at
\* order n is the only content of the single pushed scope; the pop of the
\* loop body leaves push depth zero.
C23_KIContext ==
  /\ ki.pc = "check" =>
        /\ ki.k >= 1
        /\ Len(ki.ctx) = 2
        /\ ki.ctx[1] = {Item("decl", i) : i \in 0..ki.k}
                          \cup {Item("P", i) : i \in 0..(ki.k - 1)}
                          \cup {Item("trans", i) : i \in 0..(ki.k - 1)}
        /\ ki.ctx[2] = {Item("R", ki.k)}
  /\ ki.pc = "loop" => Len(ki.ctx) = 2 /\ Len(pop(ki.ctx)) = 1

\* C23 witness: k-Induction is about to issue its check-sat with R at order 2.
C23_Witness ==
  /\ ki.pc = "check"
  /\ ki.k = 2
  /\ Item("P", 1) \in ki.ctx[1]

\* A path through more markings than the net has within the bound repeats
\* one: if check-sat answers sat up to this depth it answers sat at every
\* depth, and the loop of prove_without_reduction never ends.
Horizon(N) == Cardinality(Markings(N)) + 1

\* The verdict of prove on the initial net alone: INV once a check-sat
\* answers unsat, none when every check-sat answers sat.
KI_verdict_without_reduction(N, F) ==
  IF \E k \in 1..Horizon(N) : ~Satisfiable(N, F, KI_context(k)) THEN "INV" ELSE "none"

KI_prove ==
  \/ KI_prove_without_reduction
  \/ KI_check_sat
  \/ KI_loop
  \/ KI_publish
  \/ KI_kill
  \/ KI_quit
  \/ KI_put
  \/ KI_empty
  \/ KI_get

(***************************************************************************)
(* CP (src/smpt/checkers/cp.py).  The answer of its solver on the          *)
(* reduction system is an input of the model.                              *)
(***************************************************************************)
\* prove_smt / prove_minizinc: the writes and the check-sat.
CP_check_sat ==
  /\ cp.pc = "start"
  /\ IF cp.alive
     THEN \E s \in BOOLEAN :
            cp' = [cp EXCEPT !.sat = s, !.pc = IF s /\ cp.show_model THEN "model" ELSE "kill"]
     ELSE cp' = [cp EXCEPT !.aborted = TRUE, !.sat = check_sat_aborted,
                           !.pc = IF check_sat_aborted /\ cp.show_model THEN "model" ELSE "kill"]
  /\ UNCHANGED << commonVars, encVars, fnVars, threadVars, ki, rw, results, induction_queue, concurrent_pids, signals, timed_out >>

\* prove: `if sat and self.show_model: model = self.solver.get_marking(self.ptnet)`.
CP_get_marking ==
  /\ cp.pc = "model"
  /\ cp' = [cp EXCEPT !.aborted = cp.aborted \/ ~cp.alive, !.pc = "kill"]
  /\ UNCHANGED << commonVars, encVars, fnVars, threadVars, ki, rw, results, induction_queue, concurrent_pids, signals, timed_out >>

\* prove: `self.solver.kill()`.
CP_kill ==
  /\ cp.pc = "kill"
  /\ cp' = [kill(cp) EXCEPT !.pc = "quit"]
  /\ UNCHANGED << commonVars, encVars, fnVars, threadVars, ki, rw, results, induction_queue, concurrent_pids, signals, timed_out >>

\* prove: `if self.solver.aborted: return`.
CP_quit ==
  /\ cp.pc = "quit"
  /\ cp' = [cp EXCEPT !.pc = IF cp.aborted THEN "done" ELSE "put"]
  /\ UNCHANGED << commonVars, encVars, fnVars, threadVars, ki, rw, results, induction_queue, concurrent_pids, signals, timed_out >>

CP_put_missing ==
  /\ cp.pc = "put"
  /\ results' = results
  /\ cp' = [cp EXCEPT !.pc = "empty"]
  /\ UNCHANGED << commonVars, encVars, fnVars, threadVars, ki, rw, induction_queue, concurrent_pids, signals, timed_out >>

\* prove: `results.put((verdict, model))`.
CP_put ==
  /\ cp.pc = "put"
  /\ results' = Append(results, [worker |-> "CP", verdict |-> IF cp.sat THEN "CEX" ELSE "INV"])
  /\ cp' = [cp EXCEPT !.pc = "empty"]
  /\ UNCHANGED << commonVars, encVars, fnVars, threadVars, ki, rw, induction_queue, concurrent_pids, signals, timed_out >>

\* prove: `if not concurrent_pids.empty():`.
CP_empty ==
  /\ cp.pc = "empty"
  /\ cp' = [cp EXCEPT !.pc = IF concurrent_pids # << >> THEN "get" ELSE "done"]
  /\ UNCHANGED << commonVars, encVars, fnVars, threadVars, ki, rw, results, induction_queue, concurrent_pids, signals, timed_out >>

\* prove: `send_signal_pids(concurrent_pids.get(), STOP)`.
CP_get ==
  /\ cp.pc = "get"
  /\ concurrent_pids # << >>
  /\ concurrent_pids' = Tail(concurrent_pids)
  /\ send_signal_pids("CP")
  /\ UNCHANGED << commonVars, encVars, fnVars, threadVars, results, induction_queue, timed_out >>

CP_prove ==
  \/ CP_check_sat
  \/ CP_get_marking
  \/ CP_kill
  \/ CP_quit
  \/ CP_put
  \/ CP_empty
  \/ CP_get

(***************************************************************************)
(* RandomWalk (src/smpt/checkers/randomwalk.py).  The walkers' answers are *)
(* inputs of the model.                                                    *)
(***************************************************************************)
\* prove: the Parikh walk, when a Parikh walker was built.
RW_parikh ==
  /\ rw.pc = "start"
  /\ IF rw.has_parikh
     THEN \E s \in BOOLEAN :
            LET ab == ~rw.parikh_alive
                sat == s /\ ~ab
            IN rw' = [rw EXCEPT !.parikh_aborted = ab, !.sat = sat,
                                !.pc = IF sat THEN "kill" ELSE "walk"]
     ELSE rw' = [rw EXCEPT !.pc = "walk"]
  /\ UNCHANGED << commonVars, encVars, fnVars, threadVars, ki, cp, results, induction_queue, concurrent_pids, signals, timed_out >>

\* prove: `sat = self.solver.check_sat(...); sat = sat and not self.solver.aborted`.
RW_walk ==
  /\ rw.pc = "walk"
  /\ \E s \in BOOLEAN :
       LET ab == ~rw.alive IN
         rw' = [rw EXCEPT !.aborted = ab, !.sat = s /\ ~ab, !.pc = "kill"]
  /\ UNCHANGED << commonVars, encVars, fnVars, threadVars, ki, cp, results, induction_queue, concurrent_pids, signals, timed_out >>

\* prove: `self.solver.kill()` and `if not sat: return`.
RW_kill ==
  /\ rw.pc = "kill"
  /\ rw' = [rw EXCEPT !.alive = FALSE, !.pc = IF rw.sat THEN "put" ELSE "done"]
  /\ UNCHANGED << commonVars, encVars, fnVars, threadVars, ki, cp, results, induction_queue, concurrent_pids, signals, timed_out >>

\* prove: `result.put((Verdict.CEX, None))`.
RW_put ==
  /\ rw.pc = "put"
  /\ results' = Append(results, [worker |-> "RW", verdict |-> "CEX"])
  /\ rw' = [rw EXCEPT !.pc = "empty"]
  /\ UNCHANGED << commonVars, encVars, fnVars, threadVars, ki, cp, induction_queue, concurrent_pids, signals, timed_out >>

\* prove: `if not concurrent_pids.empty():`.
RW_empty ==
  /\ rw.pc = "empty"
  /\ rw' = [rw EXCEPT !.pc = IF concurrent_pids # << >> THEN "get" ELSE "done"]
  /\ UNCHANGED << commonVars, encVars, fnVars, threadVars, ki, cp, results, induction_queue, concurrent_pids, signals, timed_out >>

\* prove: `send_signal_pids(concurrent_pids.get(), STOP)`.
RW_get ==
  /\ rw.pc = "get"
  /\ concurrent_pids # << >>
  /\ concurrent_pids' = Tail(concurrent_pids)
  /\ send_signal_pids("RW")
  /\ UNCHANGED << commonVars, encVars, fnVars, threadVars, results, induction_queue, timed_out >>

RW_prove ==
  \/ RW_parikh
  \/ RW_walk
  \/ RW_kill
  \/ RW_put
  \/ RW_empty
  \/ RW_get

(***************************************************************************)
(* The scheduler: on expiry of the timeout it signals every solver child.  *)
(***************************************************************************)
Timeout ==
  /\ ~timed_out
  /\ timed_out' = TRUE
  /\ ki' = [kill(ki) EXCEPT !.bmc_alive = FALSE]
  /\ cp' = kill(cp)
  /\ rw' = [rw EXCEPT !.alive = FALSE, !.parikh_alive = FALSE]
  /\ UNCHANGED << commonVars, encVars, fnVars, threadVars, results, induction_queue, concurrent_pids, signals >>

(***************************************************************************)
(* BMC (src/bmc.py): a thread with its own solver, cancelled through the   *)
(* Event stop_bmc.  Its transition relation carries the stutter disjunct.  *)
(***************************************************************************)
\* An optional value is a sequence of at most one element; None is the empty one.
None == << >>

Some(x) == << x >>

\* Solver.get_model(pn, order): the marking at the given order of one
\* satisfying assignment of the context.
get_model(N, F, ctx, order) == ModelsAt(N, F, Asserted(ctx), order)

\* prove_non_reduced, up to the first check-sat.
BMC_prove_non_reduced ==
  /\ bmc.pc = "start"
  /\ bmc' = [bmc EXCEPT
       !.ctx = write(push(write(EmptyContext, {Item("decl", 0), Item("init", 0)})),
                     {Item("R", 0)}),
       !.k = 0,
       !.pc = "check"]
  /\ UNCHANGED << commonVars, encVars, fnVars, portfolioVars, ic3, stop_bmc, stop_ic3, result_bmc, result_ic3, par >>

\* The loop test, first operand: `not self.solver.check_sat()`.
BMC_check_sat ==
  /\ bmc.pc = "check"
  /\ LET s == Satisfiable(net, formula, bmc.ctx) IN
       bmc' = [bmc EXCEPT !.sat = IF s THEN "sat" ELSE "unsat",
                          !.pc = IF s THEN "result" ELSE "is_set"]
  /\ UNCHANGED << commonVars, encVars, fnVars, portfolioVars, ic3, stop_bmc, stop_ic3, result_bmc, result_ic3, par >>

\* The loop test, second operand: `not stop_bmc.is_set()`.
BMC_is_set ==
  /\ bmc.pc = "is_set"
  /\ bmc' = [bmc EXCEPT !.pc = IF stop_bmc THEN "result" ELSE "loop"]
  /\ UNCHANGED << commonVars, encVars, fnVars, portfolioVars, ic3, stop_bmc, stop_ic3, result_bmc, result_ic3, par >>

BMC_loop_no_pop ==
  /\ bmc.pc = "loop"
  /\ bmc.k < MaxK
  /\ bmc' = [bmc EXCEPT
       !.ctx = write(push(write(bmc.ctx,
                 {Item("decl", bmc.k + 1), Item("transeq", bmc.k)})),
                 {Item("R", bmc.k + 1)}),
       !.k = bmc.k + 1,
       !.pc = "check"]
  /\ UNCHANGED << commonVars, encVars, fnVars, portfolioVars, ic3, stop_bmc, stop_ic3, result_bmc, result_ic3, par >>

\* The loop body: pop, declare k+1, transition k -> k+1, push, R at k+1.
BMC_loop ==
  /\ bmc.pc = "loop"
  /\ bmc.k < MaxK
  /\ bmc' = [bmc EXCEPT
       !.ctx = write(push(write(pop(bmc.ctx),
                 {Item("decl", bmc.k + 1), Item("transeq", bmc.k)})),
                 {Item("R", bmc.k + 1)}),
       !.k = bmc.k + 1,
       !.pc = "check"]
  /\ UNCHANGED << commonVars, encVars, fnVars, portfolioVars, ic3, stop_bmc, stop_ic3, result_bmc, result_ic3, par >>

\* prove: `if not stop_bmc.is_set(): self.formula.result(True)` and the
\* model is displayed or kept; `else: self.formula.result(False)`.
BMC_result ==
  /\ bmc.pc = "result"
  /\ IF ~stop_bmc
     THEN \E m \in get_model(net, formula, bmc.ctx, bmc.k) :
            bmc' = [bmc EXCEPT !.reported = Append(bmc.reported, TRUE),
                               !.displayed = IF bmc.display THEN Some(m) ELSE None,
                               !.model = IF bmc.display THEN None ELSE Some(m),
                               !.pc = "exit"]
     ELSE bmc' = [bmc EXCEPT !.reported = Append(bmc.reported, FALSE), !.pc = "exit"]
  /\ UNCHANGED << commonVars, encVars, fnVars, portfolioVars, ic3, stop_bmc, stop_ic3, result_bmc, result_ic3, par >>

\* prove: `self.solver.exit()` and `if self.stop_concurrent: self.stop_concurrent.set()`.
BMC_stop_concurrent ==
  /\ bmc.pc = "exit"
  /\ stop_ic3' = (stop_ic3 \/ bmc.stop_concurrent)
  /\ bmc' = [bmc EXCEPT !.pc = "append"]
  /\ UNCHANGED << commonVars, encVars, fnVars, portfolioVars, ic3, stop_bmc, result_bmc, result_ic3, par >>

\* prove: `if result is not None: result.append(model)`.
BMC_append ==
  /\ bmc.pc = "append"
  /\ result_bmc' = IF bmc.has_result THEN Append(result_bmc, bmc.model) ELSE result_bmc
  /\ par' = IF bmc.has_result /\ par.first = "none" THEN [par EXCEPT !.first = "BMC"] ELSE par
  /\ bmc' = [bmc EXCEPT !.pc = "done"]
  /\ UNCHANGED << commonVars, encVars, fnVars, portfolioVars, ic3, stop_bmc, stop_ic3, result_ic3 >>

BMC_prove ==
  \/ BMC_prove_non_reduced
  \/ BMC_check_sat
  \/ BMC_is_set
  \/ BMC_loop
  \/ BMC_result
  \/ BMC_stop_concurrent
  \/ BMC_append

\* `proc.join(timeout = 600); stop_bmc.set()` of the module's main.
BMC_main_stop ==
  /\ ~stop_bmc
  /\ par.pc = "absent"
  /\ stop_bmc' = TRUE
  /\ UNCHANGED << commonVars, encVars, fnVars, portfolioVars, bmc, ic3, stop_ic3, result_bmc, result_ic3, par >>

(***************************************************************************)
(* The unrolled encoding against the concrete semantics: `run` grows by    *)
(* concrete firings, `assignment` by markings the one-step relation of     *)
(* PetriNet.smtlib_transition_relation admits.                             *)
(***************************************************************************)
Last(sq) == sq[Len(sq)]

\* One firing of the net: the run is extended by the marking it yields.
Enc_fire ==
  /\ Len(run) >= 1
  /\ Len(run) <= MaxK
  /\ \E i \in DOMAIN net.transitions :
       /\ Enabled(net.transitions[i], Last(run))
       /\ Fire(net.transitions[i], Last(run)) \in Markings(net)
       /\ run' = Append(run, Fire(net.transitions[i], Last(run)))
  /\ UNCHANGED << commonVars, portfolioVars, threadVars, fnVars, assignment >>

\* One more order of the unrolling: the assignment is extended by a marking
\* that satisfies the transition relation from the last order, asserted with
\* (eq) or without the stutter disjunct.
Enc_assign ==
  /\ Len(assignment) >= 1
  /\ Len(assignment) <= MaxK
  /\ \E eq \in BOOLEAN, m2 \in Markings(net) :
       /\ smtlib_transition_relation(net, eq, Last(assignment).m, m2)
       /\ assignment' = Append(assignment, [m |-> m2, eq |-> eq])
  /\ UNCHANGED << commonVars, portfolioVars, threadVars, fnVars, run >>

(***************************************************************************)
(* The one-step relation of src/pn.py, which IC3 asserts between order 0   *)
(* and order 1: input and output are the pre and post dicts as parsed.     *)
(***************************************************************************)
pl_linked(t) == DOMAIN t.pre \cup DOMAIN t.post

smtlib_ordered(t, m, m2) ==
  /\ \A pl \in DOMAIN t.pre :
        IF t.pre[pl] > 0 THEN m[pl] >= t.pre[pl] ELSE m[pl] < 0 - t.pre[pl]
  /\ \A pl \in DOMAIN t.pre :
        t.pre[pl] > 0 =>
           IF pl \in DOMAIN t.post
           THEN m2[pl] = (m[pl] + t.post[pl]) - t.pre[pl]
           ELSE m2[pl] = m[pl] - t.pre[pl]
  /\ \A pl \in DOMAIN t.post :
        (pl \notin DOMAIN t.pre \/ t.pre[pl] < 0) => m2[pl] = m[pl] + t.post[pl]
  /\ \A pl \in DOMAIN m : pl \notin pl_linked(t) => m2[pl] = m[pl]

smtlib_transitions_ordered(N, m, m2) ==
  \/ \E i \in DOMAIN N.transitions : smtlib_ordered(N.transitions[i], m, m2)
  \/ m2 = m

(***************************************************************************)
(* Clauses of IC3: a Clause is a conjunction ('and') or a disjunction      *)
(* ('or') of Inequalities place op constant.                               *)
(***************************************************************************)
Inequality(left, right, op) == [left_member |-> left, right_member |-> right, operator |-> op]

Clause(inequalities, op) == [inequalities |-> inequalities, operator |-> op]

Inequality_holds(ineq, m) ==
  TRANSLATION_COMPARISON_OPERATORS(ineq.operator, m[ineq.left_member], ineq.right_member)

Clause_holds(c, m) ==
  IF c.operator = "and"
  THEN \A ineq \in c.inequalities : Inequality_holds(ineq, m)
  ELSE \E ineq \in c.inequalities : Inequality_holds(ineq, m)

\* The inequalities p >= m(p) of a reachability formula.
clauses(F) ==
  {Inequality(F.R.operands[i].left, F.R.operands[i].right, F.R.operands[i].operator) :
     i \in DOMAIN F.R.operands}

\* Formula.get_model(solver, order): the cube p = value over every place.
Cube(m) == Clause({Inequality(pl, m[pl], "=") : pl \in DOMAIN m}, "and")

\* oars[i] of the code is Frame(oars, i).
Frame(oars, i) == oars[i + 1]

Frame_holds(oars, i, m) == \A j \in DOMAIN Frame(oars, i) : Clause_holds(Frame(oars, i)[j], m)

\* The markings at order 0 of the models of F_i /\ T /\ (target at order 1),
\* the target given as the set of markings that satisfy it.
Predecessors(N, oars, i, target) ==
  {m \in Markings(N) : /\ Frame_holds(oars, i, m)
                       /\ \E m2 \in target : smtlib_transitions_ordered(N, m, m2)}

init_marking_reach_bad_state(N, F) == eval(F.R, N.m0)

init_tr_reach_bad_state(N, F) ==
  \E m2 \in Markings(N) : smtlib_transitions_ordered(N, N.m0, m2) /\ eval(F.R, m2)

\* The order-0 models of formula_reach_bad_state(k).
formula_reach_bad_state(N, F, oars, k) ==
  Predecessors(N, oars, k, {m2 \in Markings(N) : eval(F.R, m2)})

formula_reach_clause_sat(N, oars, index_formula, c) ==
  Predecessors(N, oars, index_formula, {m2 \in Markings(N) : ~Clause_holds(c, m2)}) # {}

state_reachable_skipped(N, oars, index_formula, s) ==
  \E m \in Predecessors(N, oars, index_formula, {}) :
     ~Clause_holds(s, m)

state_reachable(N, oars, index_formula, s) ==
  \E m \in Predecessors(N, oars, index_formula, {m2 \in Markings(N) : Clause_holds(s, m2)}) :
     ~Clause_holds(s, m)

\* The order-0 models of formula_reach_state(index_formula, s).
formula_reach_state(N, oars, index_formula, s) ==
  Predecessors(N, oars, index_formula, {m2 \in Markings(N) : Clause_holds(s, m2)})

\* sub_clause_finder(i, s): the unsat cores the solver may answer, each
\* turned into the learned clause; empty when the query is satisfiable.
unsat_cores(N, oars, i, s) ==
  {core \in SUBSET s.inequalities :
     ~\E m \in Predecessors(N, oars, i,
                 {m2 \in Markings(N) : \A eq \in core : Inequality_holds(eq, m2)}) :
        ~Clause_holds(s, m)}

sub_clause_finder(N, oars, i, s) ==
  {Clause({Inequality(eq.left_member, eq.right_member,
                      IF eq.right_member = 0 THEN ">" ELSE "<") : eq \in core}, "or") :
     core \in unsat_cores(N, oars, i, s)}

generate_clause_last(N, oars, s, i, k) ==
  LET learned == sub_clause_finder(N, oars, i, s) IN
    IF learned = {}
    THEN {[kind |-> "AssertionError", oars |-> oars, n |-> i]}
    ELSE {[kind |-> "ok",
           oars |-> [j \in DOMAIN oars |->
                       IF j - 1 = i + 1 THEN Append(oars[j], c) ELSE oars[j]],
           n |-> i] : c \in learned}

\* generate_clause(s, i, k): the frames after c was appended to oars[1..i+1],
\* one outcome per clause the solver's core may give.
generate_clause(N, oars, s, i, k) ==
  LET learned == sub_clause_finder(N, oars, i, s) IN
    IF learned = {}
    THEN {[kind |-> "AssertionError", oars |-> oars, n |-> i]}
    ELSE {[kind |-> "ok",
           oars |-> [j \in DOMAIN oars |->
                       IF j - 1 \in 1..(i + 1) THEN Append(oars[j], c) ELSE oars[j]],
           n |-> i] : c \in learned}

inductively_generalize_largest(N, oars, s, minimum, k) ==
  IF minimum < 0 /\ state_reachable(N, oars, 0, s)
  THEN {[kind |-> "Counterexample", oars |-> oars, n |-> 0]}
  ELSE LET lo == IF minimum + 1 > 1 THEN minimum + 1 ELSE 1
           hits == {i \in lo..k : state_reachable(N, oars, i, s)}
       IN IF hits # {}
          THEN generate_clause(N, oars, s, (CHOOSE i \in hits : \A j \in hits : i >= j) - 1, k)
          ELSE generate_clause(N, oars, s, k, k)

\* inductively_generalize(s, minimum, k): Counterexample, or the frames
\* after generate_clause and the index returned.
inductively_generalize(N, oars, s, minimum, k) ==
  IF minimum < 0 /\ state_reachable(N, oars, 0, s)
  THEN {[kind |-> "Counterexample", oars |-> oars, n |-> 0]}
  ELSE LET lo == IF minimum + 1 > 1 THEN minimum + 1 ELSE 1
           hits == {i \in lo..k : state_reachable(N, oars, i, s)}
       IN IF hits # {}
          THEN generate_clause(N, oars, s, (CHOOSE i \in hits : \A j \in hits : i <= j) - 1, k)
          ELSE generate_clause(N, oars, s, k, k)

(***************************************************************************)
(* IC3 (src/ic3.py).  ic3.ret is what prove returns ("none" while it runs; *)
(* "AssertionError" when sub_clause_finder's assertion fails).             *)
(***************************************************************************)
\* prove: the two initial checks and oars_initialization.
IC3_prove ==
  /\ ic3.pc = "start"
  /\ IF init_marking_reach_bad_state(net, formula) \/ init_tr_reach_bad_state(net, formula)
     THEN ic3' = [ic3 EXCEPT !.ret = "False", !.pc = "return"]
     ELSE LET P == Clause({Inequality(ineq.left_member, ineq.right_member, "<") :
                             ineq \in clauses(formula)}, "or")
          IN ic3' = [ic3 EXCEPT !.P = P,
                                !.oars = << << Cube(net.m0) >>, << P >> >>,
                                !.k = 1,
                                !.pc = "frame"]
  /\ UNCHANGED << commonVars, encVars, fnVars, portfolioVars, bmc, stop_bmc, stop_ic3, result_bmc, result_ic3, par >>

IC3_append_frame_missing ==
  /\ ic3.pc = "frame"
  /\ ic3.k <= MaxK
  /\ ic3' = [ic3 EXCEPT !.pc = "strengthen"]
  /\ UNCHANGED << commonVars, encVars, fnVars, portfolioVars, bmc, stop_bmc, stop_ic3, result_bmc, result_ic3, par >>

\* prove, head of the loop: `self.oars.append([self.P])`.
IC3_append_frame ==
  /\ ic3.pc = "frame"
  /\ ic3.k <= MaxK
  /\ ic3' = [ic3 EXCEPT !.oars = Append(ic3.oars, << ic3.P >>), !.pc = "strengthen"]
  /\ UNCHANGED << commonVars, encVars, fnVars, portfolioVars, bmc, stop_bmc, stop_ic3, result_bmc, result_ic3, par >>

\* strengthen(k), one turn of its loop up to the call of push_generalization.
IC3_strengthen ==
  /\ ic3.pc = "strengthen"
  /\ LET bad == formula_reach_bad_state(net, formula, ic3.oars, ic3.k) IN
       IF bad = {}
       THEN ic3' = [ic3 EXCEPT !.pc = "propagate"]
       ELSE \E m \in bad :
              \E g \in inductively_generalize(net, ic3.oars, Cube(m), ic3.k - 2, ic3.k) :
                 ic3' = IF g.kind = "ok"
                        THEN [ic3 EXCEPT !.oars = g.oars,
                                         !.states = << << g.n + 1, Cube(m) >> >>,
                                         !.pc = "push"]
                        ELSE [ic3 EXCEPT !.ret = IF g.kind = "Counterexample" THEN "False" ELSE g.kind,
                                         !.pc = "return"]
  /\ UNCHANGED << commonVars, encVars, fnVars, portfolioVars, bmc, stop_bmc, stop_ic3, result_bmc, result_ic3, par >>

\* min(states, key=lambda t: t[0]): the first state of smallest index.
min_state(states) ==
  CHOOSE i \in DOMAIN states :
     /\ \A j \in DOMAIN states : states[i][1] <= states[j][1]
     /\ \A j \in 1..(i - 1) : states[j][1] > states[i][1]

\* states.remove(x): the first element equal to x is removed.
remove(states, x) ==
  LET i == CHOOSE j \in DOMAIN states : states[j] = x /\ \A h \in 1..(j - 1) : states[h] # x
  IN SubSeq(states, 1, i - 1) \o SubSeq(states, i + 1, Len(states))

\* push_generalization(states, k), one turn of its loop.
IC3_push_generalization ==
  /\ ic3.pc = "push"
  /\ LET state == ic3.states[min_state(ic3.states)]
         n == state[1]
         s == state[2]
         preds == formula_reach_state(net, ic3.oars, n, s)
     IN IF n > ic3.k
        THEN ic3' = [ic3 EXCEPT !.states = << >>, !.pc = "strengthen"]
        ELSE /\ Len(ic3.states) < MaxStates
             /\ IF preds # {}
                THEN \E p \in preds :
                       \E g \in inductively_generalize(net, ic3.oars, Cube(p), n - 2, ic3.k) :
                          ic3' = IF g.kind = "ok"
                                 THEN [ic3 EXCEPT !.oars = g.oars,
                                                  !.states = Append(ic3.states, << g.n + 1, Cube(p) >>)]
                                 ELSE [ic3 EXCEPT
                                         !.ret = IF g.kind = "Counterexample" THEN "False" ELSE g.kind,
                                         !.pc = "return"]
                ELSE \E g \in inductively_generalize(net, ic3.oars, s, n, ic3.k) :
                       ic3' = IF g.kind = "ok"
                              THEN [ic3 EXCEPT !.oars = g.oars,
                                               !.states = Append(remove(ic3.states, state),
                                                                 << g.n + 1, s >>)]
                              ELSE [ic3 EXCEPT
                                      !.ret = IF g.kind = "Counterexample" THEN "False" ELSE g.kind,
                                      !.pc = "return"]
  /\ UNCHANGED << commonVars, encVars, fnVars, portfolioVars, bmc, stop_bmc, stop_ic3, result_bmc, result_ic3, par >>

\* `c in frame` on a list of clauses.
In(c, frame) == \E j \in DOMAIN frame : frame[j] = c

\* propagate_clauses(k), frame i: every clause of oars[i] but the first that
\* F_i /\ T implies at the next order is appended to oars[i + 1] unless there.
RECURSIVE propagate_frame(_, _, _, _)
propagate_frame(N, oars, i, cs) ==
  IF cs = << >> THEN oars
  ELSE LET c == Head(cs)
           oars2 == IF ~formula_reach_clause_sat(N, oars, i, c) /\ ~In(c, Frame(oars, i + 1))
                    THEN [oars EXCEPT ![i + 2] = Append(@, c)]
                    ELSE oars
       IN propagate_frame(N, oars2, i, Tail(cs))

RECURSIVE propagate_clauses(_, _, _, _)
propagate_clauses(N, oars, i, k) ==
  IF i > k THEN oars
  ELSE propagate_clauses(N, propagate_frame(N, oars, i, Tail(Frame(oars, i))), i + 1, k)

\* prove: `self.propagate_clauses(k)`.
IC3_propagate_clauses ==
  /\ ic3.pc = "propagate"
  /\ ic3' = [ic3 EXCEPT !.oars = propagate_clauses(net, ic3.oars, 1, ic3.k), !.pc = "fixpoint"]
  /\ UNCHANGED << commonVars, encVars, fnVars, portfolioVars, bmc, stop_bmc, stop_ic3, result_bmc, result_ic3, par >>

\* set(self.oars[i]), with clauses compared by their content.
set(frame) == {frame[j] : j \in DOMAIN frame}

\* prove: the fixpoint test, then `k += 1`.
IC3_fixpoint ==
  /\ ic3.pc = "fixpoint"
  /\ IF \E i \in 1..ic3.k : set(Frame(ic3.oars, i)) = set(Frame(ic3.oars, i + 1))
     THEN ic3' = [ic3 EXCEPT !.ret = "True", !.pc = "return"]
     ELSE ic3' = [ic3 EXCEPT !.k = ic3.k + 1, !.pc = "frame"]
  /\ UNCHANGED << commonVars, encVars, fnVars, portfolioVars, bmc, stop_bmc, stop_ic3, result_bmc, result_ic3, par >>

\* The thread's end under the Parallelizer: a proof is appended to the result
\* list and stops the concurrent method.
IC3_append ==
  /\ ic3.pc = "return"
  /\ IF ic3.ret = "True"
     THEN /\ result_ic3' = Append(result_ic3, TRUE)
          /\ stop_bmc' = TRUE
          /\ par' = IF par.first = "none" THEN [par EXCEPT !.first = "IC3"] ELSE par
     ELSE UNCHANGED << result_ic3, stop_bmc, par >>
  /\ ic3' = [ic3 EXCEPT !.pc = "done"]
  /\ UNCHANGED << commonVars, encVars, fnVars, portfolioVars, bmc, stop_ic3, result_bmc >>

\* The thread observes stop_ic3 at the head of one of its loops and ends.
IC3_stopped ==
  /\ ic3.pc \in {"frame", "strengthen", "push"}
  /\ stop_ic3
  /\ ic3' = [ic3 EXCEPT !.pc = "done"]
  /\ UNCHANGED << commonVars, encVars, fnVars, portfolioVars, bmc, stop_bmc, stop_ic3, result_bmc, result_ic3, par >>

IC3_thread ==
  \/ IC3_prove
  \/ IC3_append_frame
  \/ IC3_strengthen
  \/ IC3_push_generalization
  \/ IC3_propagate_clauses
  \/ IC3_fixpoint
  \/ IC3_append
  \/ IC3_stopped

(***************************************************************************)
(* Parallelizer.run (src/parallelizer.py).                                 *)
(***************************************************************************)
\* run: the result lists, the cleared stop flags, the two threads started.
Parallelizer_run ==
  /\ par.pc = "run"
  /\ result_ic3' = << >>
  /\ result_bmc' = << >>
  /\ stop_ic3' = FALSE
  /\ stop_bmc' = FALSE
  /\ ic3' = [ic3 EXCEPT !.pc = "start"]
  /\ bmc' = [bmc EXCEPT !.pc = "start"]
  /\ par' = [par EXCEPT !.pc = "join"]
  /\ UNCHANGED << commonVars, encVars, fnVars, portfolioVars >>

\* run: both threads joined, `if len(result_ic3) == 1: return True else: return result_bmc[0]`.
Parallelizer_return ==
  /\ par.pc = "join"
  /\ ic3.pc = "done"
  /\ bmc.pc = "done"
  /\ par' = [par EXCEPT
       !.ret = IF Len(result_ic3) = 1
               THEN [verified |-> TRUE, model |-> None]
               ELSE [verified |-> FALSE, model |-> result_bmc[1]],
       !.pc = "done"]
  /\ UNCHANGED << commonVars, encVars, fnVars, portfolioVars, bmc, ic3, stop_bmc, stop_ic3, result_bmc, result_ic3 >>

\* main, reachability mode: `model = parallelizer.run()`.  The configured
\* timeout expires while run waits in its two joins; neither main nor run
\* acts on it.
Parallelizer_timeout ==
  /\ par.pc = "join"
  /\ ~timed_out
  /\ timed_out' = TRUE
  /\ UNCHANGED << commonVars, encVars, fnVars, threadVars, ki, cp, rw, results, induction_queue, concurrent_pids, signals >>

(***************************************************************************)
(* The Concurrent Places analyzer (src/concurrent_places.py).  A value of  *)
(* Python is an int or a str: Solver.get_model keeps the text the solver   *)
(* printed, `pl.marking` and the stepper's vectors hold ints.              *)
(***************************************************************************)
PyInt(n) == [type |-> "int", value |-> n]

PyStr(n) == [type |-> "str", value |-> n]

\* v == n of Python for an int n: a str is never equal to an int.
Py_eq(v, n) == v.type = "int" /\ v.value = n

\* pl.order
Order(pl) == (CHOOSE i \in DOMAIN PlaceOrder : PlaceOrder[i] = pl) - 1

NoAnalysis ==
  [pc |-> "idle", matrix |-> << >>, c |-> << >>, clauses |-> << >>,
   markings |-> {}, filled |-> {}]

\* build_matrix: the lower-triangular matrix with the diagonal set.
build_matrix(N) ==
  [i \in 0..(Cardinality(N.places) - 1) |-> [j \in 0..i |-> IF i = j THEN 1 ELSE 0]]

\* fill_matrix: the cells [row][column] the two loops assign 1 to.
fill_matrix_writes(c) ==
  {IF Order(pls[1]) > Order(pls[2]) THEN << Order(pls[1]), Order(pls[2]) >>
                                     ELSE << Order(pls[2]), Order(pls[1]) >> :
     pls \in {x \in c \X c : x[1] # x[2]}}

fill_matrix_reset(c, matrix) ==
  [i \in DOMAIN matrix |->
     [j \in DOMAIN matrix[i] |->
        IF << i, j >> \in fill_matrix_writes(c) \/ i = j THEN 1 ELSE 0]]

\* fill_matrix(c, matrix)
fill_matrix(c, matrix) ==
  [i \in DOMAIN matrix |->
     [j \in DOMAIN matrix[i] |->
        IF \E pl1 \in c, pl2 \in c :
              /\ pl1 # pl2
              /\ IF Order(pl1) > Order(pl2)
                 THEN i = Order(pl1) /\ j = Order(pl2)
                 ELSE i = Order(pl2) /\ j = Order(pl1)
        THEN 1 ELSE matrix[i][j]]]

\* Solver.get_model: the cube place = text of the value, from the marking m
\* the solver answered.
Solver_get_model(m) == Clause({Inequality(pl, PyStr(m[pl]), "=") : pl \in DOMAIN m}, "and")

\* initialization: the cube place = pl.marking.
initial_clause(N) == Clause({Inequality(pl, PyInt(N.m0[pl]), "=") : pl \in N.places}, "and")

\* The marking a model stands for.
marking_of(model) ==
  [pl \in {eq.left_member : eq \in model.inequalities} |->
     (CHOOSE eq \in model.inequalities : eq.left_member = pl).right_member.value]

\* add_clause(model): the analyzer after the marking of the model was blocked
\* and its marked places filled in the matrix.
add_clause(an, model) ==
  LET zero == {eq \in model.inequalities : Py_eq(eq.right_member, 0)}
      marked_places == {eq.left_member : eq \in model.inequalities \ zero}
      cl == Clause({Inequality(eq.left_member, 0, ">") : eq \in zero}, "or")
  IN [an EXCEPT !.clauses = Append(@, cl),
                !.c = Append(@, marked_places),
                !.matrix = fill_matrix(marked_places, @),
                !.filled = @ \cup {[marking |-> marking_of(model), marked |-> marked_places]}]

\* add_clause_from_marking_vector(marking_vector), on a vector of ints.
add_clause_from_marking_vector(an, m) ==
  LET marked_places == {pl \in DOMAIN m : m[pl] # 0}
      cl == Clause({Inequality(pl, 0, ">") : pl \in DOMAIN m \ marked_places}, "or")
  IN [an EXCEPT !.clauses = Append(@, cl),
                !.matrix = fill_matrix(marked_places, @),
                !.filled = @ \cup {[marking |-> m, marked |-> marked_places]}]

\* Stepper.get_markings(m): one-step successors of m.
get_markings(N, m) == Successors(N, m)

\* KInduction.prove on the concurrent_places formula: the reachable markings
\* none of the blocking clauses excludes; None when there is none.
KInduction_models(N, an) ==
  {m \in Reachable(N) : \A j \in DOMAIN an.clauses : Clause_holds(an.clauses[j], m)}

\* analyze: build_matrix and initialization.
ConcurrentPlaces_analyze ==
  /\ analyzer.pc = "analyze"
  /\ analyzer' = [add_clause([analyzer EXCEPT !.matrix = build_matrix(net)], initial_clause(net))
                    EXCEPT !.markings = {net.m0}, !.pc = "iterate"]
  /\ UNCHANGED << commonVars, portfolioVars, threadVars, encVars, arg, out, callerVars >>

\* iterate_stepper: a marking the stepper returns from a marking of this
\* round is blocked and filled in the matrix.
ConcurrentPlaces_iterate_stepper ==
  /\ analyzer.pc = "iterate"
  /\ \E m \in analyzer.markings :
        \E m2 \in get_markings(net, m) \ analyzer.markings :
           analyzer' = [add_clause_from_marking_vector(analyzer, m2)
                          EXCEPT !.markings = @ \cup {m2}]
  /\ UNCHANGED << commonVars, portfolioVars, threadVars, encVars, arg, out, callerVars >>

\* iterate: the stepper has returned no more markings; k-induction is asked
\* for a marking, which is blocked, filled in and stepped from.
ConcurrentPlaces_iterate ==
  /\ analyzer.pc = "iterate"
  /\ LET models == KInduction_models(net, analyzer) IN
       IF models = {}
       THEN analyzer' = [analyzer EXCEPT !.pc = "done"]
       ELSE \E m \in models :
              analyzer' = [add_clause(analyzer, Solver_get_model(m)) EXCEPT !.markings = {m}]
  /\ UNCHANGED << commonVars, portfolioVars, threadVars, encVars, arg, out, callerVars >>

\* analyze: `proc.join(timeout); stop_it.set()` ends the loop of iterate.
ConcurrentPlaces_stop_it ==
  /\ analyzer.pc = "iterate"
  /\ analyzer' = [analyzer EXCEPT !.pc = "done"]
  /\ UNCHANGED << commonVars, portfolioVars, threadVars, encVars, arg, out, callerVars >>

\* `for marking in markings: self.add_clause_from_marking_vector(marking)`
RECURSIVE add_clauses_from_marking_vectors(_, _)
add_clauses_from_marking_vectors(an, ms) ==
  IF ms = {} THEN an
  ELSE LET m == CHOOSE x \in ms : TRUE
       IN add_clauses_from_marking_vectors(add_clause_from_marking_vector(an, m), ms \ {m})

\* iterate_stepper(marking_vector), its head: the one-step markings of the
\* marking vector are blocked and filled in.  `discovered` and `stepped`
\* record the markings blocked and the markings get_markings was called on.
iterate_stepper ==
  /\ analyzer.pc = "iterate_stepper"
  /\ LET markings == get_markings(net, net.m0) IN
       analyzer' = [add_clauses_from_marking_vectors(analyzer, markings)
                      EXCEPT !.markings = markings,
                             !.discovered = markings,
                             !.stepped = {net.m0},
                             !.pc = "while"]
  /\ UNCHANGED << commonVars, portfolioVars, threadVars, encVars, arg, out, callerVars >>

\* `while markings:` either leaves the phase or enters the for loop over the
\* markings of this level.
iterate_stepper_while ==
  /\ analyzer.pc = "while"
  /\ analyzer' = IF analyzer.markings = {}
                 THEN [analyzer EXCEPT !.pc = "return"]
                 ELSE [analyzer EXCEPT !.pc = "for", !.todo = analyzer.markings]
  /\ UNCHANGED << commonVars, portfolioVars, threadVars, encVars, arg, out, callerVars >>

\* One turn of `for marking in markings:` (in any order of the markings):
\* new_markings is assigned the one-step markings of this marking, which are
\* blocked and filled in.
iterate_stepper_for ==
  /\ analyzer.pc = "for"
  /\ \E marking \in analyzer.todo :
        LET new_markings == get_markings(net, marking) IN
          analyzer' = [add_clauses_from_marking_vectors(analyzer, new_markings)
                         EXCEPT !.new_markings = new_markings,
                                !.discovered = @ \cup new_markings,
                                !.stepped = @ \cup {marking},
                                !.todo = @ \ {marking}]
  /\ UNCHANGED << commonVars, portfolioVars, threadVars, encVars, arg, out, callerVars >>

\* `markings = new_markings` once the for loop is through.
iterate_stepper_assign ==
  /\ analyzer.pc = "for"
  /\ analyzer.todo = {}
  /\ analyzer' = [analyzer EXCEPT !.markings = analyzer.new_markings, !.pc = "while"]
  /\ UNCHANGED << commonVars, portfolioVars, threadVars, encVars, arg, out, callerVars >>

(***************************************************************************)
(* The reduction system (src/smpt/system.py).  A line of the file is the   *)
(* list of the elements re.split gives: an operator, a sign, or a variable *)
(* with the multiplier that stands before its last dot.                    *)
(***************************************************************************)
Variable(id, multiplier) == [id |-> id, multiplier |-> multiplier]

Sign(op) == [op |-> op]

\* str.isnumeric on the identifiers in use
isnumeric(id) == id \in {"0", "1", "2"}

\* Equation.check_variable(element, system): st holds the equation under
\* construction and system.additional_vars.
check_variable(st, element, places_initial, places_reduced) ==
  IF isnumeric(element) THEN st
  ELSE [st EXCEPT
          !.additional_vars =
             IF element \notin places_initial /\ \A j \in DOMAIN @ : @[j] # element
             THEN Append(@, element) ELSE @,
          !.contain_reduced = @ \/ element \in places_reduced]

\* Equation.parse_equation: the loop over the elements of the line.
RECURSIVE parse_equation(_, _, _, _)
parse_equation(st, elements, places_initial, places_reduced) ==
  IF elements = << >> THEN st
  ELSE
    LET element == Head(elements)
        next ==
          IF "op" \in DOMAIN element
          THEN IF element.op \in {"=", "<=", ">=", "<", ">"}
               THEN [st EXCEPT !.operator = element.op,
                               !.current = IF @ = "left" THEN "right" ELSE "left",
                               !.minus = FALSE]
               ELSE [st EXCEPT !.minus = (element.op = "-")]
          ELSE LET checked == check_variable(st, element.id, places_initial, places_reduced)
                   side == IF st.minus THEN (IF st.current = "left" THEN "right" ELSE "left")
                           ELSE st.current
               IN IF side = "left" THEN [checked EXCEPT !.left = Append(@, element)]
                  ELSE [checked EXCEPT !.right = Append(@, element)]
    IN parse_equation(next, Tail(elements), places_initial, places_reduced)

\* Equation(content, system)
Equation(additional_vars, elements, places_initial, places_reduced) ==
  parse_equation([left |-> << >>, right |-> << >>, operator |-> "", contain_reduced |-> FALSE,
                  current |-> "left", minus |-> FALSE, additional_vars |-> additional_vars],
                 elements, places_initial, places_reduced)

\* System.parser: one Equation per line that is not an `O` or `C` line.
RECURSIVE System_parser(_, _)
System_parser(system, lines) ==
  IF lines = << >> THEN system
  ELSE LET line == Head(lines) IN
    IF line.head \in {". O", ". C"} THEN System_parser(system, Tail(lines))
    ELSE LET eq == Equation(system.additional_vars, line.elements,
                            system.places_initial, system.places_reduced)
         IN System_parser([system EXCEPT
                             !.additional_vars = eq.additional_vars,
                             !.equations = Append(@, [left |-> eq.left, right |-> eq.right,
                                                      operator |-> eq.operator,
                                                      contain_reduced |-> eq.contain_reduced])],
                          Tail(lines))

\* System(filename, places_initial, places_reduced)
System(lines, places_initial, places_reduced) ==
  System_parser([places_initial |-> places_initial, places_reduced |-> places_reduced,
                 additional_vars |-> << >>, equations |-> << >>], lines)

\* The constant `id` or `id@k` of the SMT-LIB text.
Const(id, k) == [id |-> id, order |-> k]

\* Variable.smtlib(k): the constant the text refers to (the multiplier
\* stands before it).
Variable_smtlib(var, k) == [const |-> Const(var.id, k), multiplier |-> var.multiplier]

\* Equation.member_smtlib_with_order
member_smtlib_with_order(member, k, k_initial, places_reduced, additional_vars) ==
  [j \in DOMAIN member |->
     IF member[j].id \in places_reduced THEN Variable_smtlib(member[j], k)
     ELSE IF k_initial # None /\ member[j].id \in additional_vars
     THEN Variable_smtlib(member[j], k_initial)
     ELSE Variable_smtlib(member[j], None)]

\* Equation.member_smtlib without order and additional variables, as
\* Equation.smtlib() calls it.
member_smtlib(member) == [j \in DOMAIN member |-> Variable_smtlib(member[j], None)]

\* System.smtlib(k, k_initial): the constants declared and the equations
\* asserted.
System_smtlib(system, k, k_initial) ==
  LET avars == {system.additional_vars[j] : j \in DOMAIN system.additional_vars}
      names == system.places_initial \cup avars
  IN [declared |-> {Const(var, k) : var \in avars},
      equations |->
        [j \in DOMAIN system.equations |->
           LET eq == system.equations[j] IN
             IF k = None /\ k_initial = None
             THEN [operator |-> eq.operator, left |-> member_smtlib(eq.left),
                   right |-> member_smtlib(eq.right)]
             ELSE [operator |-> eq.operator,
                   left |-> member_smtlib_with_order(eq.left, k, k_initial, system.places_reduced, names),
                   right |-> member_smtlib_with_order(eq.right, k, k_initial, system.places_reduced, names)]]]

\* System(...) on the given lines
Call_System ==
  /\ out = None
  /\ arg.fn = "System"
  /\ out' = Some(System(arg.lines, arg.places_initial, arg.places_reduced))
  /\ UNCHANGED << commonVars, portfolioVars, threadVars, encVars, arg, analyzer, callerVars >>

\* System(...).smtlib(k, k_initial)
Call_System_smtlib ==
  /\ out = None
  /\ arg.fn = "System.smtlib"
  /\ out' = Some(System_smtlib(System(arg.lines, arg.places_initial, arg.places_reduced),
                               arg.k, arg.k_initial))
  /\ UNCHANGED << commonVars, portfolioVars, threadVars, encVars, arg, analyzer, callerVars >>

(***************************************************************************)
(* Calls of the formula functions (src/smpt/ptio/formula.py).              *)
(***************************************************************************)
\* phi.dnf()
Call_dnf ==
  /\ out = None
  /\ arg.fn = "dnf"
  /\ out' = Some(dnf(arg.phi, FALSE))
  /\ UNCHANGED << commonVars, portfolioVars, threadVars, encVars, arg, analyzer, callerVars >>

\* phi.negation().negation()
Call_negation ==
  /\ out = None
  /\ arg.fn = "negation"
  /\ out' = Some(negation(negation(arg.phi)))
  /\ UNCHANGED << commonVars, portfolioVars, threadVars, encVars, arg, analyzer, callerVars >>

\* Transition.normalize_flows() on a transition with the given pre and post
Call_normalize_flows ==
  /\ out = None
  /\ arg.fn = "normalize_flows"
  /\ out' = Some(normalize_flows([pre |-> arg.pre, post |-> arg.post]))
  /\ UNCHANGED << commonVars, portfolioVars, threadVars, encVars, arg, analyzer, callerVars >>

\* formula.result(verdict)
Call_result ==
  /\ out = None
  /\ arg.fn = "result"
  /\ out' = Some(Formula_result(arg.property_def, arg.verdict))
  /\ UNCHANGED << commonVars, portfolioVars, threadVars, encVars, arg, analyzer, callerVars >>

\* Formula.generate_deadlock() on the net of the given transitions, and
\* R.eval(m) at the given marking
Call_generate_deadlock ==
  /\ out = None
  /\ arg.fn = "generate_deadlock"
  /\ out' = Some(eval(generate_deadlock(PetriNet(arg.m, arg.transitions)).R, arg.m))
  /\ UNCHANGED << commonVars, portfolioVars, threadVars, encVars, arg, analyzer, callerVars >>

(***************************************************************************)
(* The portfolio of k-Induction, CP and Random-Walk.                       *)
(***************************************************************************)
\* The workers a run starts are at "start"; the others are absent ("done").
InitWorkers(started) ==
  /\ ki \in [pc : {IF "KI" \in started THEN "start" ELSE "done"}, k : {0},
             ctx : {EmptyContext}, alive : {TRUE}, bmc_alive : {TRUE}, reduced : {FALSE},
             aborted : {FALSE}, sat : {"none"},
             has_queue : IF "KI" \in started THEN BOOLEAN ELSE {FALSE}]
  /\ cp \in [pc : {IF "CP" \in started THEN "start" ELSE "done"}, alive : {TRUE},
             aborted : {FALSE}, sat : {FALSE},
             show_model : IF "CP" \in started THEN BOOLEAN ELSE {FALSE}]
  /\ rw \in [pc : {IF "RW" \in started THEN "start" ELSE "done"}, alive : {TRUE},
             aborted : {FALSE}, parikh_alive : {TRUE}, parikh_aborted : {FALSE},
             sat : {FALSE},
             has_parikh : IF "RW" \in started THEN BOOLEAN ELSE {FALSE}]
  /\ results = << >>
  /\ induction_queue = << >>
  /\ concurrent_pids \in IF started = {} THEN {<< >>} ELSE {<< >>, << Workers >>}
  /\ signals = {}
  /\ timed_out = FALSE

\* The BMC thread as constructed: display and result are prove's arguments.
InitBMC(pc, display, has_result, stop_concurrent) ==
  bmc = [pc |-> pc, k |-> 0, ctx |-> EmptyContext, sat |-> "none", reported |-> << >>,
         displayed |-> None, model |-> None, display |-> display,
         has_result |-> has_result, stop_concurrent |-> stop_concurrent]

InitIC3 ==
  ic3 = [pc |-> "idle", k |-> 0, oars |-> << >>, P |-> Clause({}, "or"),
         states |-> << >>, ret |-> "none"]

InitThreads(pc) ==
  /\ InitIC3
  /\ stop_bmc = FALSE
  /\ stop_ic3 = FALSE
  /\ result_bmc = << >>
  /\ result_ic3 = << >>
  /\ par = [pc |-> pc, first |-> "none", ret |-> [verified |-> FALSE, model |-> None]]

NoThreads ==
  /\ InitBMC("idle", FALSE, FALSE, FALSE)
  /\ InitThreads("absent")

NoEncoding ==
  /\ run = << >>
  /\ assignment = << >>

\* Neither main of src/smpt.py nor k_induction of src/smpn.py is running.
NoCaller ==
  /\ xml = [pc |-> "idle", props |-> << >>, i |-> 0, stop_k_induction |-> FALSE,
            started |-> << >>, thread |-> "none", k |-> 0]
  /\ smpn = [pc |-> "idle", k |-> 0, ctx |-> EmptyContext, sat |-> "none", outcome |-> "none",
             caller |-> "idle", stop_it_smpn |-> FALSE, stop_it_kinduction |-> FALSE]

NoFunction ==
  /\ arg = << >>
  /\ out = << >>
  /\ analyzer = NoAnalysis

NoCall ==
  /\ NoFunction
  /\ NoCaller

\* The nets and formulas of the portfolio runs: k-Induction answers unsat at
\* once, after one unrolling, or never within MaxK.
PortfolioNets == {NetSeq, NetSource}

PortfolioFormulas == {generate_reachability(Arc("p", 1)), generate_reachability(Arc("p", 2))}

Init ==
  /\ net \in PortfolioNets
  /\ formula \in PortfolioFormulas
  /\ InitWorkers(Workers)
  /\ NoThreads
  /\ NoEncoding
  /\ NoCall

Next ==
  \/ KI_prove
  \/ CP_prove
  \/ RW_prove
  \/ Timeout

Spec == Init /\ [][Next]_vars

\* C24: a worker sends STOP to the other workers only after it has put its
\* own verdict on the results queue: every worker that has signalled has an
\* entry of its own in results, and a step that sends a signal leaves the
\* results queue as it found it.
C24_StopAfterPut ==
  /\ \A w \in signals : \E i \in DOMAIN results : results[i].worker = w
  /\ \A w \in Workers :
        (w = "KI" /\ ki.pc \in {"empty", "get"}) \/ (w = "CP" /\ cp.pc \in {"empty", "get"})
          \/ (w = "RW" /\ rw.pc \in {"empty", "get"})
        => \E i \in DOMAIN results : results[i].worker = w

\* C24 witness: CP has put its verdict, sent STOP and returned.
C24_Witness ==
  /\ Cardinality(signals) >= 1
  /\ "CP" \in signals
  /\ \E i \in DOMAIN results : results[i].worker = "CP"
  /\ cp.pc = "done"

(***************************************************************************)
(* CP and Random-Walk finishing concurrently, each scheduled fairly: a     *)
(* worker process that can take a step of prove eventually takes one.      *)
(***************************************************************************)
InitRace ==
  /\ net \in PortfolioNets
  /\ formula \in PortfolioFormulas
  /\ InitWorkers({"CP", "RW"})
  /\ NoThreads
  /\ NoEncoding
  /\ NoCall

NextRace ==
  \/ CP_prove
  \/ RW_prove

SpecRace == InitRace /\ [][NextRace]_vars /\ WF_vars(CP_prove) /\ WF_vars(RW_prove)

\* C25: every worker that has put a result on the results queue eventually
\* returns from prove; none stays blocked in concurrent_pids.get().
C25_PutThenReturn ==
  /\ (\E i \in DOMAIN results : results[i].worker = "CP") ~> (cp.pc = "done")
  /\ (\E i \in DOMAIN results : results[i].worker = "RW") ~> (rw.pc = "done")

\* C25: no worker is in concurrent_pids.get() on an empty queue.
C25_NeverBlocked ==
  ~(concurrent_pids = << >> /\ (cp.pc = "get" \/ rw.pc = "get"))

(***************************************************************************)
(* k-Induction alone, on every net and formula of the model.               *)
(***************************************************************************)
InitKI ==
  /\ net \in Nets
  /\ formula \in Formulas(net)
  /\ InitWorkers({"KI"})
  /\ NoThreads
  /\ NoEncoding
  /\ NoCall

NextKI ==
  \/ KI_prove
  \/ Timeout

SpecKI == InitKI /\ [][NextKI]_vars

(***************************************************************************)
(* k-Induction with and without a reduced net and reduction equations.     *)
(***************************************************************************)
InitKIRed ==
  /\ net \in Nets
  /\ formula \in Formulas(net)
  /\ ki \in [pc : {"start"}, k : {0}, ctx : {EmptyContext}, alive : {TRUE},
             bmc_alive : {TRUE}, reduced : BOOLEAN, aborted : {FALSE}, sat : {"none"},
             has_queue : BOOLEAN]
  /\ cp = [pc |-> "done", alive |-> TRUE, aborted |-> FALSE, sat |-> FALSE, show_model |-> FALSE]
  /\ rw = [pc |-> "done", alive |-> TRUE, aborted |-> FALSE, parikh_alive |-> TRUE,
           parikh_aborted |-> FALSE, sat |-> FALSE, has_parikh |-> FALSE]
  /\ results = << >>
  /\ induction_queue = << >>
  /\ concurrent_pids \in {<< >>, << Workers >>}
  /\ signals = {}
  /\ timed_out = FALSE
  /\ NoThreads
  /\ NoEncoding
  /\ NoCall

NextKIRed ==
  \/ KI_prove_with_reduction
  \/ KI_prove
  \/ Timeout

SpecKIRed == InitKIRed /\ [][NextKIRed]_vars

(***************************************************************************)
(* The functions of the program called on their own, no engine running.    *)
(***************************************************************************)
Idle ==
  /\ net = NetSeq
  /\ formula = generate_reachability(Arc("p", 1))
  /\ InitWorkers({})
  /\ NoThreads
  /\ run = << >>
  /\ assignment = << >>

InitCalls ==
  /\ Idle
  /\ arg \in [fn : {"dnf", "negation"}, phi : Expressions]
              \cup [fn : {"normalize_flows"}, pre : PreDicts, post : PostDicts]
              \cup [fn : {"result"}, property_def : PropertyDefs, verdict : Verdicts]
  /\ out = None
  /\ analyzer = NoAnalysis
  /\ NoCaller

NextCalls ==
  \/ Call_dnf
  \/ Call_negation
  \/ Call_normalize_flows
  \/ Call_result

SpecCalls == InitCalls /\ [][NextCalls]_vars

(***************************************************************************)
(* The deadlock formula of the nets over p and q with up to two            *)
(* transitions, evaluated at every marking within the bound.               *)
(***************************************************************************)
DeadlockTransitions ==
  {<< >>} \cup {<< Tr(pre, Arc("q", 1)) >> : pre \in PreDicts}
          \cup {<< Tr(pre1, Arc("q", 1)), Tr(pre2, Arc("p", 1)) >> : pre1 \in PreDicts, pre2 \in PreDicts}

InitEval ==
  /\ Idle
  /\ arg \in [fn : {"generate_deadlock"}, transitions : DeadlockTransitions, m : [Places -> 0..MaxTok]]
  /\ out = None
  /\ analyzer = NoAnalysis
  /\ NoCaller

NextEval == Call_generate_deadlock

SpecEval == InitEval /\ [][NextEval]_vars

(***************************************************************************)
(* The stepping phase of the analyzer from the initial marking.            *)
(***************************************************************************)
\* pl p q r; tr t1 p -> q; tr t2 p -> r; tr t3 q -> r*2
NetBranch(m0) ==
  PetriNet(m0, << Tr(Arc("p", 1), Arc("q", 1)), Tr(Arc("p", 1), Arc("r", 1)),
                  Tr(Arc("q", 1), Arc("r", 2)) >>)

StepperNets ==
  {PetriNet(m0, N.transitions) : N \in {NetSeq, NetInhibitor, NetTest, NetConsume}, m0 \in [Places -> 0..2]}
    \cup {NetBranch(m0) : m0 \in [{"p", "q", "r"} -> 0..1]}

InitStepper ==
  /\ net \in StepperNets
  /\ formula = generate_reachability(Arc("p", 1))
  /\ InitWorkers({})
  /\ NoThreads
  /\ NoEncoding
  /\ arg = << >>
  /\ out = << >>
  /\ NoCaller
  /\ analyzer = [add_clause([NoAnalysis EXCEPT !.matrix = build_matrix(net)], initial_clause(net))
                   EXCEPT !.pc = "iterate_stepper"]
                 @@ [todo |-> {}, new_markings |-> {}, discovered |-> {}, stepped |-> {}]

NextStepper ==
  \/ iterate_stepper
  \/ iterate_stepper_while
  \/ iterate_stepper_for
  \/ iterate_stepper_assign

SpecStepper == InitStepper /\ [][NextStepper]_vars

(***************************************************************************)
(* Reduction systems of one or two lines over the places p, q, r, the      *)
(* variable a and the constant 1.                                          *)
(***************************************************************************)
SystemIds == {"p", "q", "r", "a", "1"}

SystemVariables == {Variable(id, None) : id \in SystemIds} \cup {Variable("a", Some("2"))}

SystemLines ==
  {[head |-> ". R", elements |-> << v1, Sign("="), v2 >>] :
      v1 \in SystemVariables, v2 \in SystemVariables}
  \cup {[head |-> ". R", elements |-> << v1, Sign("="), v2, Sign(sg), v3 >>] :
      v1 \in SystemVariables, v2 \in SystemVariables,
      v3 \in {Variable("a", None), Variable("r", None)}, sg \in {"+", "-"}}
  \cup {[head |-> ". O", elements |-> << Variable("a", None), Sign("<="), Variable("1", None) >>]}

SystemFiles ==
  {<< l >> : l \in SystemLines}
    \cup {<< l, [head |-> ". R", elements |-> << Variable("a", None), Sign("<="), Variable("q", None) >>] >> :
            l \in SystemLines}

Orders == {None} \cup {Some(i) : i \in 0..(MaxK - 2)}

InitSystem ==
  /\ Idle
  /\ arg \in [fn : {"System"}, lines : SystemFiles,
               places_initial : {{"p"}, {"p", "q"}}, places_reduced : {{"q"}, {"q", "r"}}]
              \cup [fn : {"System.smtlib"}, lines : {<< l >> : l \in SystemLines},
                    places_initial : {{"p"}, {"p", "q"}}, places_reduced : {{"q"}, {"q", "r"}},
                    k : Orders, k_initial : Orders]
  /\ out = None
  /\ analyzer = NoAnalysis
  /\ NoCaller

NextSystem ==
  \/ Call_System
  \/ Call_System_smtlib

SpecSystem == InitSystem /\ [][NextSystem]_vars

(***************************************************************************)
(* The Concurrent Places analysis of a net, without reduction.             *)
(***************************************************************************)
InitConcurrentPlaces ==
  /\ net \in Nets \cup {NetFork}
  /\ formula = generate_reachability(Arc("p", 1))
  /\ InitWorkers({})
  /\ NoThreads
  /\ NoEncoding
  /\ arg = << >>
  /\ out = << >>
  /\ analyzer = [NoAnalysis EXCEPT !.pc = "analyze"]
  /\ NoCaller

NextConcurrentPlaces ==
  \/ ConcurrentPlaces_analyze
  \/ ConcurrentPlaces_iterate_stepper
  \/ ConcurrentPlaces_iterate
  \/ ConcurrentPlaces_stop_it

SpecConcurrentPlaces == InitConcurrentPlaces /\ [][NextConcurrentPlaces]_vars

(***************************************************************************)
(* The encoding against the concrete semantics, on every net.              *)
(***************************************************************************)
InitEnc ==
  /\ net \in Nets
  /\ formula = generate_reachability(Arc("p", 1))
  /\ InitWorkers({})
  /\ NoThreads
  /\ run = << net.m0 >>
  /\ assignment \in {<< [m |-> m, eq |-> FALSE] >> : m \in Markings(net)}
  /\ NoCall

NextEnc ==
  \/ Enc_fire
  \/ Enc_assign

SpecEnc == InitEnc /\ [][NextEnc]_vars

(***************************************************************************)
(* BMC as its module runs it (the model displayed, the main thread setting *)
(* stop_bmc) or with the arguments the Parallelizer gives it.              *)
(***************************************************************************)
InitBMCAlone ==
  /\ net \in Nets
  /\ formula \in Formulas(net)
  /\ InitWorkers({})
  /\ \/ InitBMC("start", TRUE, FALSE, FALSE)
     \/ InitBMC("start", FALSE, TRUE, TRUE)
  /\ InitThreads("absent")
  /\ NoEncoding
  /\ NoCall

NextBMC ==
  \/ BMC_prove
  \/ BMC_main_stop

SpecBMC == InitBMCAlone /\ [][NextBMC]_vars

(***************************************************************************)
(* BMC on the deadlock property of each net.                               *)
(***************************************************************************)
InitDeadlock ==
  /\ net \in Nets
  /\ formula = generate_deadlock(net)
  /\ InitWorkers({})
  /\ \/ InitBMC("start", TRUE, FALSE, FALSE)
     \/ InitBMC("start", FALSE, TRUE, TRUE)
  /\ InitThreads("absent")
  /\ NoEncoding
  /\ NoCall

SpecDeadlock == InitDeadlock /\ [][NextBMC]_vars

(***************************************************************************)
(* BMC next to the k-Induction worker that publishes its bound.            *)
(***************************************************************************)
InitBMCKI ==
  /\ net \in PortfolioNets
  /\ formula \in PortfolioFormulas
  /\ InitWorkers({"KI"})
  /\ InitBMC("start", FALSE, TRUE, FALSE)
  /\ InitThreads("absent")
  /\ NoEncoding
  /\ NoCall

NextBMCKI ==
  \/ BMC_prove
  \/ BMC_main_stop
  \/ KI_prove

SpecBMCKI == InitBMCKI /\ [][NextBMCKI]_vars

(***************************************************************************)
(* IC3 as its module runs it.                                              *)
(***************************************************************************)
IC3Nets == {NetSeq, NetSource, NetWeight, NetLoop}

IC3Formulas == {generate_reachability(Arc("p", 2)), generate_reachability(Arc("p", 3))}

InitIC3Alone ==
  /\ net \in IC3Nets
  /\ formula \in IC3Formulas
  /\ InitWorkers({})
  /\ InitBMC("idle", FALSE, FALSE, FALSE)
  /\ stop_bmc = FALSE
  /\ stop_ic3 = FALSE
  /\ result_bmc = << >>
  /\ result_ic3 = << >>
  /\ par = [pc |-> "absent", first |-> "none", ret |-> [verified |-> FALSE, model |-> None]]
  /\ ic3 = [pc |-> "start", k |-> 0, oars |-> << >>, P |-> Clause({}, "or"),
            states |-> << >>, ret |-> "none"]
  /\ NoEncoding
  /\ NoCall

NextIC3 ==
  \/ IC3_prove
  \/ IC3_append_frame
  \/ IC3_strengthen
  \/ IC3_push_generalization
  \/ IC3_propagate_clauses
  \/ IC3_fixpoint

SpecIC3 == InitIC3Alone /\ [][NextIC3]_vars

\* IC3 on the same nets and the formula p >= 2 alone.
InitIC3Frames ==
  /\ InitIC3Alone
  /\ formula = generate_reachability(Arc("p", 2))

SpecIC3Frames == InitIC3Frames /\ [][NextIC3]_vars

(***************************************************************************)
(* inductively_generalize called on the frames IC3 has built on NetLoop    *)
(* with R = (p >= 3) when strengthen(2) starts.                            *)
(***************************************************************************)
IG_oars ==
  LET lt(pl, n) == Inequality(pl, n, "<")
      P == Clause({lt("p", 3)}, "or")
      c1 == Clause({lt("p", 2)}, "or")
      c2 == Clause({lt("p", 1), lt("q", 4)}, "or")
      c3 == Clause({lt("p", 2), lt("q", 3)}, "or")
  IN << << Cube(NetLoop.m0) >>, << P, c1, c2, c3 >>, << P, c2, c3 >>, << P >> >>

\* The k of the calls: oars holds F_0..F_(k+1).
IG_k == Len(IG_oars) - 2

Call_inductively_generalize ==
  /\ out = None
  /\ arg.fn = "inductively_generalize"
  /\ out' = Some(inductively_generalize(net, IG_oars, arg.s, arg.minimum, IG_k))
  /\ UNCHANGED << commonVars, portfolioVars, threadVars, encVars, arg, analyzer, callerVars >>

InitIG ==
  /\ net = NetLoop
  /\ formula = generate_reachability(Arc("p", 3))
  /\ InitWorkers({})
  /\ NoThreads
  /\ NoEncoding
  /\ arg \in [fn : {"inductively_generalize"}, s : {Cube(m) : m \in Markings(NetLoop)},
               minimum : (0 - 1)..IG_k]
  /\ out = None
  /\ analyzer = NoAnalysis
  /\ NoCaller

NextIG == Call_inductively_generalize

SpecIG == InitIG /\ [][NextIG]_vars

\* The indices i of [max(1, minimum + 1), k] such that s is reachable from F_i.
IG_indices(oars, s, minimum, k) ==
  {i \in (IF minimum + 1 > 1 THEN minimum + 1 ELSE 1)..k : state_reachable(NetLoop, oars, i, s)}

\* What generate_clause(s, n, k) does to the frames: one clause appended to
\* each of F_1..F_(n+1), no other frame touched.
generated(before, after, n) ==
  /\ Len(after) = Len(before)
  /\ \E c \in {Last(after[2])} :
        \A j \in DOMAIN before :
           after[j] = IF j - 1 \in 1..(n + 1) THEN Append(before[j], c) ELSE before[j]

\* C29 as stated: inductively_generalize(s, min, k), when it does not raise
\* Counterexample, takes the largest i of [max(1, min + 1), k] such that s is
\* reachable from F_i, calls generate_clause(s, i - 1, k) and returns i - 1;
\* without such an i it calls generate_clause(s, k, k) and returns k.
C29_LargestIndex ==
  (out # None /\ arg.fn = "inductively_generalize") =>
     \A g \in out[1] :
        LET h == IG_indices(IG_oars, arg.s, arg.minimum, IG_k)
            n == IF h = {} THEN IG_k ELSE (CHOOSE i \in h : \A j \in h : i >= j) - 1
        IN /\ g.kind # "Counterexample" => g.n = n
           /\ g.kind = "ok" => generated(IG_oars, g.oars, n)

\* C29 amended: it takes the smallest such i, calls generate_clause(s, i - 1, k)
\* and returns i - 1; without such an i it calls generate_clause(s, k, k) and
\* returns k.
C29_SmallestIndex ==
  (out # None /\ arg.fn = "inductively_generalize") =>
     \A g \in out[1] :
        LET h == IG_indices(IG_oars, arg.s, arg.minimum, IG_k)
            n == IF h = {} THEN IG_k ELSE (CHOOSE i \in h : \A j \in h : i <= j) - 1
        IN /\ g.kind # "Counterexample" => g.n = n
           /\ g.kind = "ok" => generated(IG_oars, g.oars, n)

\* C29 witness: the call strengthen(2) makes on the bad state p = 2, q = 1:
\* the state is reachable from F_1 and from F_2, and 0 is returned.
C29_Witness ==
  /\ out # None
  /\ arg.fn = "inductively_generalize"
  /\ arg.s = Cube(Mk(2, 1))
  /\ arg.minimum = 0
  /\ IG_indices(IG_oars, arg.s, arg.minimum, IG_k) = {1, 2}
  /\ \E g \in out[1] : g.kind = "ok" /\ g.n = 0

\* The frames of the calls above are frames of a run of IC3.
IG_oars_unreached == ~(ic3.pc = "strengthen" /\ ic3.k = IG_k /\ ic3.oars = IG_oars)

(***************************************************************************)
(* Parallelizer.run: IC3 and BMC side by side.                             *)
(***************************************************************************)
ParNets == {NetWeight}

ParFormulas == {generate_reachability(Arc("p", 3))}

InitPar ==
  /\ net \in ParNets
  /\ formula \in ParFormulas
  /\ InitWorkers({})
  /\ InitBMC("idle", FALSE, TRUE, TRUE)
  /\ InitThreads("run")
  /\ NoEncoding
  /\ NoCall

NextPar ==
  \/ Parallelizer_run
  \/ BMC_prove
  \/ IC3_thread
  \/ Parallelizer_return
  \/ Parallelizer_timeout

SpecPar == InitPar /\ [][NextPar]_vars

(***************************************************************************)
(* main of src/smpt.py on a file of properties: one k-Induction run per    *)
(* property, each in a thread joined with the timeout.                     *)
(***************************************************************************)
MaxProps == 3

\* The files of properties within the bound.
RECURSIVE PropertyFiles(_)
PropertyFiles(n) ==
  IF n = 0 THEN {<< >>}
  ELSE PropertyFiles(n - 1)
         \cup {Append(ps, f) : ps \in {q \in PropertyFiles(n - 1) : Len(q) = n - 1},
                               f \in PortfolioFormulas}

\* main: `for formula_id, formula in props.formulas.items(): ...
\* k_induction(pn, formula, ...)`, and k_induction up to `proc.start()`.
main_k_induction ==
  /\ xml.pc = "loop"
  /\ xml.i < Len(xml.props)
  /\ formula' = xml.props[xml.i + 1]
  /\ xml' = [xml EXCEPT !.i = xml.i + 1,
                        !.started = Append(xml.started, xml.stop_k_induction),
                        !.thread = "running",
                        !.k = 0,
                        !.pc = "join"]
  /\ UNCHANGED << net, encVars, arg, out, analyzer, smpn, threadVars, portfolioVars >>

\* The thread of the run: each loop test reads the stop event; a cleared
\* event lets the loop unroll once more or end with a verdict.
KInduction_prove_stoppable ==
  /\ xml.thread = "running"
  /\ IF xml.stop_k_induction
     THEN xml' = [xml EXCEPT !.thread = "stopped"]
     ELSE \/ xml.k < MaxK /\ xml' = [xml EXCEPT !.k = xml.k + 1]
          \/ xml' = [xml EXCEPT !.thread = "verdict"]
  /\ UNCHANGED << commonVars, encVars, arg, out, analyzer, smpn, threadVars, portfolioVars >>

\* k_induction: `proc.join(timeout)` returns, on the thread's end or on
\* expiry, and `stop_k_induction.set()`.
main_join_set ==
  /\ xml.pc = "join"
  /\ xml' = [xml EXCEPT !.stop_k_induction = TRUE, !.pc = "loop"]
  /\ UNCHANGED << commonVars, encVars, arg, out, analyzer, smpn, threadVars, portfolioVars >>

InitXml ==
  /\ net \in PortfolioNets
  /\ xml \in [pc : {"loop"}, props : PropertyFiles(MaxProps) \ {<< >>}, i : {0},
               stop_k_induction : {FALSE}, started : {<< >>}, thread : {"none"}, k : {0}]
  /\ formula = xml.props[1]
  /\ smpn = [pc |-> "idle", k |-> 0, ctx |-> EmptyContext, sat |-> "none", outcome |-> "none",
             caller |-> "idle", stop_it_smpn |-> FALSE, stop_it_kinduction |-> FALSE]
  /\ InitWorkers({})
  /\ NoThreads
  /\ NoEncoding
  /\ NoFunction

NextXml ==
  \/ main_k_induction
  \/ KInduction_prove_stoppable
  \/ main_join_set

SpecXml == InitXml /\ [][NextXml]_vars

\* C27: with several properties in the file, the k-Induction run of each
\* property starts with the stop event cleared.
C27_RunStartsCleared ==
  \A j \in DOMAIN xml.started : ~xml.started[j]

(***************************************************************************)
(* k_induction of src/smpn.py and KInduction.solve of src/kinduction.py.   *)
(* Each module creates an Event of its own under the name stop_it.         *)
(***************************************************************************)
\* solve, up to the first loop test: declarations, initial marking, push,
\* the link to the marking at order 0.
KInduction_solve ==
  /\ smpn.pc = "start"
  /\ smpn' = [smpn EXCEPT
       !.ctx = write(push(write(EmptyContext, {Item("decl", 0), Item("init", 0)})),
                     {Item("R", 0)}),
       !.k = 0,
       !.pc = "test"]
  /\ UNCHANGED << commonVars, encVars, arg, out, analyzer, xml, threadVars, portfolioVars >>

\* solve: the loop test `not self.formula.check_sat(self.solver) and not
\* stop_it.is_set()`; stop_it is the Event of the module kinduction.
KInduction_solve_test ==
  /\ smpn.pc = "test"
  /\ LET s == Satisfiable(net, formula, smpn.ctx) IN
       smpn' = [smpn EXCEPT !.sat = IF s THEN "sat" ELSE "unsat",
                            !.pc = IF s \/ smpn.stop_it_kinduction THEN "end" ELSE "body"]
  /\ UNCHANGED << commonVars, encVars, arg, out, analyzer, xml, threadVars, portfolioVars >>

\* solve, the loop body: pop, declare k+1, transitions k -> k+1, push, the
\* link to the marking at order k+1.
KInduction_solve_body ==
  /\ smpn.pc = "body"
  /\ smpn.k < MaxK
  /\ smpn' = [smpn EXCEPT
       !.ctx = write(push(write(pop(smpn.ctx),
                 {Item("decl", smpn.k + 1), Item("transeq", smpn.k)})),
                 {Item("R", smpn.k + 1)}),
       !.k = smpn.k + 1,
       !.pc = "test"]
  /\ UNCHANGED << commonVars, encVars, arg, out, analyzer, xml, threadVars, portfolioVars >>

\* solve: `if k < 100 and not stop_it.is_set(): get_model` else "Method stopped!".
KInduction_solve_end ==
  /\ smpn.pc = "end"
  /\ smpn' = [smpn EXCEPT
       !.outcome = IF ~smpn.stop_it_kinduction THEN "model" ELSE "stopped",
       !.pc = "done"]
  /\ UNCHANGED << commonVars, encVars, arg, out, analyzer, xml, threadVars, portfolioVars >>

\* k_induction of smpn: `proc.join(timeout = 5)` returns, on the thread's
\* end or on expiry, and `stop_it.set()` sets the Event of the module smpn.
smpn_k_induction ==
  /\ smpn.caller = "join"
  /\ smpn' = [smpn EXCEPT !.stop_it_smpn = TRUE, !.caller = "set"]
  /\ UNCHANGED << commonVars, encVars, arg, out, analyzer, xml, threadVars, portfolioVars >>

InitSmpn ==
  /\ net \in Nets
  /\ formula \in Formulas(net)
  /\ smpn = [pc |-> "start", k |-> 0, ctx |-> EmptyContext, sat |-> "none", outcome |-> "none",
             caller |-> "join", stop_it_smpn |-> FALSE, stop_it_kinduction |-> FALSE]
  /\ xml = [pc |-> "idle", props |-> << >>, i |-> 0, stop_k_induction |-> FALSE,
            started |-> << >>, thread |-> "none", k |-> 0]
  /\ InitWorkers({})
  /\ NoThreads
  /\ NoEncoding
  /\ NoFunction

NextSmpn ==
  \/ KInduction_solve
  \/ KInduction_solve_test
  \/ KInduction_solve_body
  \/ KInduction_solve_end
  \/ smpn_k_induction

SpecSmpn == InitSmpn /\ [][NextSmpn]_vars

\* C28: once k_induction of smpn has set its stop event on expiry of the
\* timeout, the next loop test of KInduction.solve observes it and ends the
\* loop.
C28_StopObserved ==
  [][(smpn.stop_it_smpn /\ smpn.pc = "test" /\ smpn'.pc # "test") => smpn'.pc = "end"]_vars

(***************************************************************************)
(* Properties.                                                             *)
(***************************************************************************)
ResultsOf(w) == {i \in DOMAIN results : results[i].worker = w}

RReachable == \E m \in Reachable(net) : eval(formula.R, m)

\* C1: whenever k-Induction (no reduced net) has put its 'R not reachable'
\* (INV) result on the results queue, no marking reachable from the initial
\* marking satisfies R.
C1_KInductionInvSound ==
  (\E i \in ResultsOf("KI") : results[i].verdict = "INV") => ~RReachable

\* C6: a bound is on the induction queue only if k-Induction's last
\* check-sat returned unsat and its solver was not aborted.
C6_BoundOnlyAfterUnsat ==
  induction_queue # << >> => (ki.sat = "unsat" /\ ~ki.aborted)

\* C9: a worker whose solver is aborted puts nothing on the results queue
\* and sends no STOP signal.
C9_AbortedWorkerSilent ==
  /\ ki.aborted => (ResultsOf("KI") = {} /\ "KI" \notin signals)
  /\ cp.aborted => (ResultsOf("CP") = {} /\ "CP" \notin signals)
  /\ (rw.aborted \/ rw.parikh_aborted) => (ResultsOf("RW") = {} /\ "RW" \notin signals)

\* C9 witness: a peer has sent STOP, and both k-Induction and CP have
\* returned with their solvers aborted.
C9_Witness ==
  /\ signals # {}
  /\ ki.aborted /\ ki.pc = "done"
  /\ cp.aborted /\ cp.pc = "done"

\* C11: when a worker's prove has returned, every solver child its
\* constructor created (KInduction: solver and bmc_solver; RandomWalk: solver
\* and, when built, solver_parikh; CP: solver) is terminated.
C11_SolversTerminated ==
  /\ ki.pc = "done" => (~ki.alive /\ ~ki.bmc_alive)
  /\ cp.pc = "done" => ~cp.alive
  /\ rw.pc = "done" => (~rw.alive /\ (rw.has_parikh => ~rw.parikh_alive))

\* C12: once the configured timeout has expired during Parallelizer.run,
\* each of IC3 and BMC that is still running has been signalled to stop.
C12_TimeoutSignalsThreads ==
  (timed_out /\ par.pc = "join") =>
     /\ bmc.pc # "done" => stop_bmc
     /\ ic3.pc # "done" => stop_ic3

\* C13: the verdict k-Induction reports when given a reduced net equals
\* the verdict it reports for the same formula on the initial net alone.
C13_ReductionAgreement ==
  (ki.reduced /\ ResultsOf("KI") # {}) =>
     \A i \in ResultsOf("KI") :
        results[i].verdict = KI_verdict_without_reduction(net, formula)

\* C14: dnf(phi) evaluates at every marking to the truth value of phi.
C14_DnfEquivalent ==
  (out # None /\ arg.fn = "dnf") =>
     \A m \in Markings(net) : eval(out[1], m) = eval(arg.phi, m)

\* C14 witness: the DNF of a conjunction under a negation was computed and
\* differs from the formula it was computed from.
C14_Witness ==
  /\ out # None
  /\ arg.fn = "dnf"
  /\ arg.phi.type = "sf"
  /\ arg.phi.operator = "not"
  /\ arg.phi.operands[1].type = "sf"
  /\ arg.phi.operands[1].operator = "and"
  /\ Len(arg.phi.operands[1].operands) = 2
  /\ out[1] # arg.phi

\* C15: negation(negation(phi)) is defined and is phi.
C15_NegationInvolution ==
  (out # None /\ arg.fn = "negation") => (out[1] # KeyError /\ out[1] = arg.phi)

C32_OneEqualityPerPlace ==
  (out # None /\ arg.fn = "normalize_flows") =>
     \A pl \in Places : smtlib_equalities(out[1], pl) = 1

\* C33: an inhibitor arc never contributes to the token flow after
\* normalisation: for a place p with an inhibitor arc to the transition,
\* inputs has no entry for p, and outputs and delta hold the weight of the
\* post arc on p alone (no entry when there is no post arc on p).
C33_InhibitorNoFlow ==
  (out # None /\ arg.fn = "normalize_flows") =>
     \A pl \in Places :
        (/\ pl \in DOMAIN arg.pre
         /\ arg.pre[pl] < 0
         /\ pl \in DOMAIN arg.post => arg.post[pl] > 0) =>
           /\ pl \notin DOMAIN out[1].inputs
           /\ IF pl \in DOMAIN arg.post
              THEN /\ pl \in DOMAIN out[1].outputs
                   /\ out[1].outputs[pl] = arg.post[pl]
                   /\ pl \in DOMAIN out[1].delta
                   /\ out[1].delta[pl] = arg.post[pl]
              ELSE /\ pl \notin DOMAIN out[1].outputs
                   /\ pl \notin DOMAIN out[1].delta

\* C34: the formula R built by generate_deadlock holds at a marking m exactly
\* when no transition of the net is enabled at m, where a transition is
\* enabled when every positive pre threshold is met and every inhibitor place
\* is below its bound (a transition without pre arcs is always enabled).
C34_DeadlockIffNoneEnabled ==
  (out # None /\ arg.fn = "generate_deadlock") =>
     (out[1] <=> ~\E i \in DOMAIN arg.transitions : Enabled(arg.transitions[i], arg.m))

\* C34 witness: R was evaluated to true on a net of two transitions, the
\* first stopped by its inhibitor arc although its threshold is met, the
\* second by a threshold that is not met.
C34_Witness ==
  /\ out = Some(TRUE)
  /\ arg.fn = "generate_deadlock"
  /\ Len(arg.transitions) = 2
  /\ arg.transitions[1].pre = Arc2("p", 1, "q", -1)
  /\ arg.transitions[2].pre = Arc("q", 2)
  /\ arg.m = Mk(1, 1)

\* C34 witness: R was evaluated to false at a marking where a transition
\* without pre arcs stands next to a disabled one.
C34_WitnessEnabled ==
  /\ out = Some(FALSE)
  /\ arg.fn = "generate_deadlock"
  /\ Len(arg.transitions) = 2
  /\ arg.transitions[1].pre = Arc("p", 2)
  /\ arg.transitions[2].pre = NoArcs
  /\ arg.m = Mk(0, 0)

\* C35: when the stepping phase of the analyzer ends, get_markings has been
\* called on every marking the stepper discovered in the phase, not only on
\* the markings that follow the last marking of a level.
C35_DiscoveredAreStepped ==
  analyzer.pc = "return" => analyzer.discovered \subseteq analyzer.stepped

\* The matrix has row i of exactly i+1 entries for each place order i, the
\* diagonal is 1 and every entry is 0 or 1.
MatrixShape(matrix, N) ==
  /\ DOMAIN matrix = 0..(Cardinality(N.places) - 1)
  /\ \A i \in DOMAIN matrix :
        /\ DOMAIN matrix[i] = 0..i
        /\ matrix[i][i] = 1
        /\ \A j \in DOMAIN matrix[i] : matrix[i][j] \in {0, 1}

\* C36: after build_matrix and any sequence of fill_matrix calls the matrix
\* is lower-triangular (row i has exactly i+1 entries, and fill_matrix writes
\* only cells with row >= column inside it), every diagonal entry is 1, every
\* entry is 0 or 1, and an entry that is 1 is never reset to 0.
C36_MatrixLowerTriangular ==
  /\ [](analyzer.pc \notin {"idle", "analyze"} =>
          /\ MatrixShape(analyzer.matrix, net)
          /\ \A c \in SUBSET net.places : \A w \in fill_matrix_writes(c) :
                w[1] \in DOMAIN analyzer.matrix /\ w[2] \in DOMAIN analyzer.matrix[w[1]] /\ w[1] >= w[2]
          /\ \A f \in analyzer.filled : \A w \in fill_matrix_writes(f.marked) :
                analyzer.matrix[w[1]][w[2]] = 1)
  /\ [][analyzer.pc \notin {"idle", "analyze"} =>
          \A i \in DOMAIN analyzer.matrix : \A j \in DOMAIN analyzer.matrix[i] :
             analyzer.matrix[i][j] = 1 => analyzer'.matrix[i][j] = 1]_vars

\* C36 witness: the stepping phase has ended on the net of three places, the
\* matrix was filled three times or more, an entry off the diagonal is 1 and
\* another is still 0.
C36_Witness ==
  /\ analyzer.pc = "return"
  /\ Cardinality(net.places) = 3
  /\ Len(analyzer.clauses) >= 3
  /\ \E i \in DOMAIN analyzer.matrix : \E j \in 0..(i - 1) : analyzer.matrix[i][j] = 1
  /\ \E i \in DOMAIN analyzer.matrix : \E j \in 0..(i - 1) : analyzer.matrix[i][j] = 0

\* C37: after a reduction system is parsed (here from places of the initial
\* and of the reduced net that have no name in common), the places of the
\* initial net, the places of the reduced net and the additional variables
\* are pairwise disjoint: a place of the reduced net alone is no additional
\* variable.
C37_NameSetsDisjoint ==
  (out # None /\ arg.fn = "System" /\ arg.places_initial \cap arg.places_reduced = {}) =>
     LET avars == {out[1].additional_vars[j] : j \in DOMAIN out[1].additional_vars}
     IN /\ out[1].places_initial \cap out[1].places_reduced = {}
        /\ out[1].places_initial \cap avars = {}
        /\ out[1].places_reduced \cap avars = {}

\* C38: whatever k and k_initial System.smtlib is called with, every
\* additional variable an asserted equation refers to is referred to by the
\* constant that was declared for it, index suffix included.
C38_ReferencedAreDeclared ==
  (out # None /\ arg.fn = "System.smtlib") =>
     LET system == System(arg.lines, arg.places_initial, arg.places_reduced)
         avars == {system.additional_vars[j] : j \in DOMAIN system.additional_vars}
     IN \A j \in DOMAIN out[1].equations :
          \A member \in {out[1].equations[j].left, out[1].equations[j].right} :
            \A i \in DOMAIN member :
               member[i].const.id \in avars => member[i].const \in out[1].declared

\* C19: Formula.result answers TRUE for CEX and FALSE for INV on a 'finally'
\* property, FALSE for CEX and TRUE for INV on a 'globally' property, and the
\* empty string on any other verdict or property tag.
C19_ResultMapping ==
  (out # None /\ arg.fn = "result") =>
     LET known == arg.property_def \in {"finally", "globally"} /\ arg.verdict \in {"CEX", "INV"}
         reached == (arg.property_def = "finally") = (arg.verdict = "CEX")
     IN /\ known => out[1] = (IF reached THEN "TRUE" ELSE "FALSE")
        /\ ~known => out[1] = ""

\* C19 witness: the answer to an invariant verdict on a 'globally' property
\* was computed.
C19_Witness ==
  /\ out # None
  /\ arg.fn = "result"
  /\ arg.property_def = "globally"
  /\ arg.verdict = "INV"
  /\ out[1] = "TRUE"

\* C17: at every point of IC3's main loop, the clauses of each frame F_i of
\* the frame list contain the clauses of F_i+1.
C17_FrameMonotonicity ==
  \A i \in 0..(Len(ic3.oars) - 2) :
     set(Frame(ic3.oars, i + 1)) \subseteq set(Frame(ic3.oars, i))

\* C17, amended: the same from F_1 on; F_0 is the cube of the initial marking.
C17_FrameMonotonicityFromF1 ==
  \A i \in 1..(Len(ic3.oars) - 2) :
     set(Frame(ic3.oars, i + 1)) \subseteq set(Frame(ic3.oars, i))

\* C17 witness: F_1 and F_2 share a learned clause and F_1 holds one that
\* F_2 does not.
C17_Witness ==
  /\ Len(ic3.oars) >= 3
  /\ \E c \in set(Frame(ic3.oars, 2)) : c # ic3.P /\ c \in set(Frame(ic3.oars, 1))
  /\ set(Frame(ic3.oars, 1)) # set(Frame(ic3.oars, 2))

\* A step of IC3 in which a call of inductively_generalize returned.
IG_returned ==
  \/ ic3.pc = "strengthen" /\ ic3'.pc = "push"
  \/ ic3.pc = "push" /\ ic3'.pc = "push" /\ ic3' # ic3

\* The arguments s and minimum of that call.
IG_call ==
  IF ic3.pc = "strengthen"
  THEN [s |-> Last(ic3'.states)[2], minimum |-> ic3.k - 2]
  ELSE LET state == ic3.states[min_state(ic3.states)] IN
         IF formula_reach_state(net, ic3.oars, state[1], state[2]) # {}
         THEN [s |-> Last(ic3'.states)[2], minimum |-> state[1] - 2]
         ELSE [s |-> state[2], minimum |-> state[1]]

\* The indices i of [max(1, minimum + 1), k] such that s is reachable from F_i.
IG_hits(s, minimum) ==
  {i \in (IF minimum + 1 > 1 THEN minimum + 1 ELSE 1)..ic3.k :
     state_reachable(net, ic3.oars, i, s)}

\* The step appended one clause to each of F_1..F_(n+1) and to no other
\* frame: the effect of generate_clause(s, n, k).
IG_generated(n) ==
  /\ Len(ic3'.oars) = Len(ic3.oars)
  /\ \E c \in {Last(ic3'.oars[2])} :
        \A j \in DOMAIN ic3.oars :
           ic3'.oars[j] = IF j - 1 \in 1..(n + 1) THEN Append(ic3.oars[j], c) ELSE ic3.oars[j]

\* C29 as stated, on the calls IC3 makes: a call that returns takes the
\* largest i of [max(1, min + 1), k] with s reachable from F_i, runs
\* generate_clause(s, i - 1, k) and returns i - 1; without such an i it runs
\* generate_clause(s, k, k) and returns k.
C29_LargestIndexInRun ==
  [][IG_returned =>
       LET hits == IG_hits(IG_call.s, IG_call.minimum)
           n == Last(ic3'.states)[1] - 1
       IN /\ n = IF hits = {} THEN ic3.k
                  ELSE (CHOOSE i \in hits : \A j \in hits : i >= j) - 1
          /\ IG_generated(n)]_vars

\* C29 amended, on the calls IC3 makes: the call takes the smallest such i, runs
\* generate_clause(s, i - 1, k) and returns i - 1; without such an i it runs
\* generate_clause(s, k, k) and returns k.
C29_SmallestIndexInRun ==
  [][IG_returned =>
       LET hits == IG_hits(IG_call.s, IG_call.minimum)
           n == Last(ic3'.states)[1] - 1
       IN /\ n = IF hits = {} THEN ic3.k
                  ELSE (CHOOSE i \in hits : \A j \in hits : i <= j) - 1
          /\ IG_generated(n)]_vars

\* C29, in a run of IC3: strengthen(k) with k >= 2 got k - 2 from
\* inductively_generalize: s is reachable from F_(k-1), the smallest index of
\* the range, and from F_k.
C29_WitnessInRun ==
  /\ ic3.pc = "push"
  /\ ic3.k >= 2
  /\ Len(ic3.states) = 1
  /\ ic3.states[1][1] = ic3.k - 1
  /\ state_reachable(net, [j \in DOMAIN ic3.oars |->
                             IF j - 1 \in 1..(ic3.k - 1) THEN SubSeq(ic3.oars[j], 1, Len(ic3.oars[j]) - 1)
                             ELSE ic3.oars[j]], ic3.k, ic3.states[1][2])

\* C31: during iteration k of IC3's main loop the frame list holds exactly
\* the k + 2 frames F_0..F_(k+1), and every pending obligation of
\* push_generalization has a frame index between 1 and k + 1, so that the
\* frames read and written lie in 0..k+1.
C31_FrameIndices ==
  /\ ic3.pc \in {"strengthen", "push", "propagate", "fixpoint"} => Len(ic3.oars) = ic3.k + 2
  /\ ic3.pc = "frame" => Len(ic3.oars) = ic3.k + 1
  /\ \A j \in DOMAIN ic3.states : ic3.states[j][1] \in 1..(ic3.k + 1)

\* C31 witness: push_generalization holds two obligations, one of them at
\* the last frame F_(k+1), and generate_clause has written to F_(k+1).
C31_Witness ==
  /\ ic3.pc = "push"
  /\ Len(ic3.oars) = ic3.k + 2
  /\ Len(ic3.states) >= 2
  /\ \E j \in DOMAIN ic3.states : ic3.states[j][1] = ic3.k + 1
  /\ Len(Frame(ic3.oars, ic3.k + 1)) >= 2

\* C31, in iteration 2: an obligation at the last frame F_3 of the four frames.
C31_WitnessSecondIteration ==
  /\ ic3.pc = "push"
  /\ ic3.k = 2
  /\ Len(ic3.oars) = 4
  /\ \E j \in DOMAIN ic3.states : ic3.states[j][1] = 3

C18_FramesInductive ==
  \A i \in 1..(IF Len(ic3.oars) - 1 < ic3.k THEN Len(ic3.oars) - 1 ELSE ic3.k) :
     \A m \in Markings(net), m2 \in Markings(net) :
        (Frame_holds(ic3.oars, i - 1, m) /\ smtlib_transitions_ordered(net, m, m2))
           => Frame_holds(ic3.oars, i, m2)

\* C20: every off-diagonal entry 1 of the matrix is for two places that are
\* both positive in some reachable marking, and no place with a zero count
\* in a discovered marking was filled in on account of that marking.
C20_MatrixSound ==
  /\ \A pl1 \in net.places, pl2 \in net.places :
        (analyzer.pc \in {"iterate", "done"} /\ Order(pl1) > Order(pl2)
           /\ analyzer.matrix[Order(pl1)][Order(pl2)] = 1)
        => \E m \in Reachable(net) : m[pl1] > 0 /\ m[pl2] > 0
  /\ \A f \in analyzer.filled : \A pl \in f.marked : f.marking[pl] > 0

\* C21: on the net p (1) q (0), t : p -> q, no reachable marking satisfies
\* the deadlock predicate R: no check-sat of BMC answers sat, and the answer
\* to the deadlock property is FALSE.
C21_SequentialDeadlockFree ==
  net = NetSeq =>
     /\ bmc.sat # "sat"
     /\ bmc.pc = "done" => Formula_result(formula.property_def, "INV") = "FALSE"

\* C21, amended: on that net R is p < 1; it fails at the initial marking and
\* holds at the marking q = 1 reached by t, so check-sat answers unsat at
\* order 0 and sat at order 1 with that marking as its model, and the answer
\* to the verdict CEX is TRUE.
C21_SequentialDeadlockReached ==
  net = NetSeq =>
     /\ bmc.pc \in {"is_set", "loop"} => bmc.k = 0
     /\ bmc.sat = "sat" =>
           /\ bmc.k = 1
           /\ get_model(net, formula, bmc.ctx, bmc.k) = {Mk(0, 1)}
           /\ Formula_result(formula.property_def, "CEX") = "TRUE"

\* C21 witness: BMC has ended on that net after a check-sat that answered sat.
C21_Witness ==
  /\ net = NetSeq
  /\ bmc.pc = "done"
  /\ bmc.sat = "sat"
  /\ bmc.reported = << TRUE >>

\* C22: at every check-sat of BMC (non-reduced) at iteration k, the base
\* level of the solver context holds the declarations of the orders 0..k,
\* the initial marking at order 0 and the transition relations i -> i+1 for
\* i < k, and the one pushed scope holds R at order k alone; a pop is issued
\* only with a pushed scope.
C22_BMCContext ==
  /\ bmc.pc = "check" =>
        /\ Len(bmc.ctx) = 2
        /\ bmc.ctx[1] = {Item("decl", i) : i \in 0..bmc.k} \cup {Item("init", 0)}
                           \cup {Item("transeq", i) : i \in 0..(bmc.k - 1)}
        /\ bmc.ctx[2] = {Item("R", bmc.k)}
  /\ bmc.pc = "loop" => Len(bmc.ctx) = 2

\* C22 witness: BMC is about to issue its check-sat at iteration 2.
C22_Witness ==
  /\ bmc.pc = "check"
  /\ bmc.k = 2
  /\ Item("transeq", 1) \in bmc.ctx[1]

\* C26: BMC reports the outcome 'not reached' (formula.result(False), no
\* model) only if none of its check-sat calls answered sat: a sat answer is
\* never discarded for a stop flag set after the check-sat.
C26_SatNeverDiscarded ==
  (bmc.reported # << >> /\ ~bmc.reported[1]) => bmc.sat # "sat"

\* The marking BMC extracted from the solver's model, kept or displayed.
BMC_extracted == IF bmc.display THEN bmc.displayed ELSE bmc.model

\* C2: when BMC (non-reduced) stopped on a sat answer at iteration k, the
\* marking extracted at order k satisfies R and is reachable from the
\* initial marking by at most k concrete firings.
C2_BMCModelReachable ==
  (bmc.sat = "sat" /\ BMC_extracted # None) =>
     /\ eval(formula.R, BMC_extracted[1])
     /\ BMC_extracted[1] \in ReachWithin(net, bmc.k)

\* C3: IC3.prove returns True only if no marking reachable from the initial
\* marking satisfies R.
C3_IC3ProofSound ==
  ic3.ret = "True" => ~RReachable

\* A step of the concrete semantics: the stutter, where the stutter disjunct
\* was asserted, or the firing of an enabled transition.
ConcreteStep(N, eq, m, m2) ==
  \/ (eq /\ m2 = m)
  \/ \E i \in DOMAIN N.transitions :
        Enabled(N.transitions[i], m) /\ m2 = Fire(N.transitions[i], m)

\* C4: in every satisfying assignment of the unrolled encoding, each step
\* is a stutter (where the stutter disjunct is present) or the firing of an
\* enabled transition with the exact resulting marking on every place.
C4_AssignmentIsRun ==
  \A i \in 1..(Len(assignment) - 1) :
     ConcreteStep(net, assignment[i + 1].eq, assignment[i].m, assignment[i + 1].m)

\* C5: every concrete firing sequence satisfies the unrolled encoding: each
\* of its steps is admitted by the transition relation.
C5_RunIsAssignment ==
  \A i \in 1..(Len(run) - 1) :
     smtlib_transition_relation(net, TRUE, run[i], run[i + 1])

\* C7: once k-Induction has announced a bound K, BMC does not unroll beyond
\* a depth k >= K at which check-sat answered unsat: it ends with INV.
C7_BMCHonoursBound ==
  [][(bmc.pc = "is_set" /\ induction_queue # << >> /\ bmc.k >= induction_queue[1])
        => bmc'.pc # "loop"]_vars

\* C8: Parallelizer.run returns the verdict of the worker that produced its
\* result first: True when IC3 proved first, BMC's counterexample model when
\* BMC found one first.
C8_FirstResultWins ==
  par.pc = "done" =>
     /\ par.first = "IC3" => par.ret.verified
     /\ (par.first = "BMC" /\ result_bmc[1] # None) =>
           (~par.ret.verified /\ par.ret.model = result_bmc[1])

\* C10: when BMC was cancelled through stop_bmc before any check-sat
\* answered sat, it reports no verdict and contributes no result.
C10_BMCCancelledSilent ==
  (bmc.pc = "done" /\ bmc.sat # "sat") => (bmc.reported = << >> /\ result_bmc = << >>)

====
